---- MODULE Spec2Model ----
(***************************************************************************)
(* A model of httm's lookup engine: dataset resolution, alternate-replica  *)
(* discovery, search planning, version enumeration and deleted-entry       *)
(* discovery.                                                               *)
(*                                                                         *)
(* Two generations of the lookup module live in the repository:            *)
(*   versions_lookup.rs  (get_immediate_dataset, no cache; used by         *)
(*                        deleted_lookup.rs)                               *)
(*   lookup_versions.rs  (get_proximate_dataset, memoised by parent dir)   *)
(* Both are modelled; definitions keep the names of the source.            *)
(*                                                                         *)
(* Paths are sequences of components (the root "/" is <<>>); dataset names *)
(* are sequences of one-character strings, so that String::ends_with and   *)
(* split_once('/') work on characters as they do in the code.              *)
(***************************************************************************)
EXTENDS Naturals, Sequences, FiniteSets, TLC

VARIABLES
    map_of_datasets,  \* MountIndex.by_mount: mount -> [name, fs_type]
    config,           \* the rest of Config: alias, map_of_alts, map_of_snaps
    snap_tree,        \* the snapshots on disk: snapshot mount -> (relative path -> metadata)
    live,             \* the live files on disk: path -> metadata
    CACHE,            \* lookup_versions.rs: static CACHE: Cache<PathBuf, PathBuf>
    call,             \* the operation last run, with its inputs and its position
    ret,              \* what that operation returned
    issued            \* the commands take_snapshot has run, each with its stderr

vars == <<map_of_datasets, config, snap_tree, live, CACHE, call, ret, issued>>

\* what one run of the program never changes
env == <<map_of_datasets, config, snap_tree, live>>

-----------------------------------------------------------------------------
(* Bounds of the model *)

\* longest query path, in components
MaxDepth == 3

\* most parent directories the resolver cache holds in one run of the model
MaxCached == 2

\* most file systems in a mount table whose dataset names vary
MaxMounts == 3

-----------------------------------------------------------------------------
(* Results: Rust's Result<T, E> *)

Ok(v) == [ok |-> TRUE, val |-> v]

Err(e) == [ok |-> FALSE, val |-> <<e>>]

NoDataset == Err("NoDataset")

-----------------------------------------------------------------------------
(* std::path *)

\* path components the model draws paths from
Comps == {"home", "etc"}

PathsUpTo(d) == UNION {[1..n -> Comps] : n \in 0..d}

RECURSIVE SumLen(_, _)
SumLen(p, i) == IF i > Len(p) THEN 0 ELSE 1 + Len(p[i]) + SumLen(p, i + 1)

\* path.as_os_str().len(): "/" is 1 byte, "/home/etc" is 9
OsLen(p) == IF p = <<>> THEN 1 ELSE SumLen(p, 1)

\* Path::starts_with: whole components, not characters
StartsWith(path, base) ==
    /\ Len(base) <= Len(path)
    /\ SubSeq(path, 1, Len(base)) = base

\* Path::ancestors: the path itself first, the root last
AncestorsNoRoot(path) == [i \in 1..Len(path) |-> SubSeq(path, 1, Len(path) + 1 - i)]

Ancestors(path) == [i \in 1..(Len(path) + 1) |-> SubSeq(path, 1, Len(path) + 1 - i)]

\* Path::parent of a path that is not the root
Parent(path) == SubSeq(path, 1, Len(path) - 1)

\* Path::strip_prefix
StripPrefix(path, base) ==
    IF StartsWith(path, base)
    THEN Ok(SubSeq(path, Len(base) + 1, Len(path)))
    ELSE Err("StripPrefixError")

\* Path::join with a relative path
Join(path, rel) == path \o rel

-----------------------------------------------------------------------------
(* versions_lookup.rs: get_immediate_dataset *)

potential_mountpoints(path, mount_collection) ==
    {mount \in DOMAIN mount_collection : StartsWith(path, mount)}

\* par_iter().max_by_key(len): any element of maximal length
best_potential_mountpoints(potential) ==
    {m \in potential : \A o \in potential : OsLen(o) <= OsLen(m)}

\* the results the call can produce
get_immediate_dataset(path, mount_collection) ==
    LET potential == potential_mountpoints(path, mount_collection)
    IN  IF potential = {}
        THEN {NoDataset}
        ELSE {Ok(m) : m \in best_potential_mountpoints(potential)}

-----------------------------------------------------------------------------
(* versions_lookup.rs: get_alt_replicated_datasets *)

\* str::ends_with, on characters
EndsWith(s, suffix) ==
    /\ Len(suffix) <= Len(s)
    /\ SubSeq(s, Len(s) - Len(suffix) + 1, Len(s)) = suffix

Orderings(S) ==
    {f \in [1..Cardinality(S) -> S] : \A i, j \in DOMAIN f : f[i] = f[j] => i = j}

\* sort_unstable_by_key(|path| path.as_os_str().len()): equal keys in any order
sort_unstable_by_len(S) ==
    {f \in Orderings(S) : \A i, j \in DOMAIN f : i < j => OsLen(f[i]) <= OsLen(f[j])}

\* the two filters: another dataset name, which ends with ours
is_alt_replicated_any_suffix(fs_name, immediate_dataset_fs_name) ==
    EndsWith(fs_name, immediate_dataset_fs_name)

is_alt_replicated(fs_name, immediate_dataset_fs_name) ==
    /\ fs_name # immediate_dataset_fs_name
    /\ EndsWith(fs_name, immediate_dataset_fs_name)

alt_replicated_mounts(immediate_dataset_mount, mount_collection) ==
    {mount \in DOMAIN mount_collection :
        is_alt_replicated(mount_collection[mount].name,
                          mount_collection[immediate_dataset_mount].name)}

NoAltReplica == Err("NoAltReplica")

\* the results the call can produce
get_alt_replicated_datasets(immediate_dataset_mount, mount_collection) ==
    IF immediate_dataset_mount \notin DOMAIN mount_collection
    THEN {NoAltReplica}
    ELSE LET alts == alt_replicated_mounts(immediate_dataset_mount, mount_collection)
         IN  IF alts = {}
             THEN {NoAltReplica}
             ELSE {Ok([immediate_dataset_mount |-> immediate_dataset_mount,
                       datasets_of_interest |-> doi]) : doi \in sort_unstable_by_len(alts)}

-----------------------------------------------------------------------------
(* lookup_versions.rs: get_proximate_dataset *)

RECURSIVE find_map(_, _, _)
\* the_rest.into_iter().find_map(..): the first ancestor that is a key
find_map(the_rest, i, mounts) ==
    IF i > Len(the_rest) THEN <<>>
    ELSE IF the_rest[i] \in DOMAIN mounts THEN <<the_rest[i]>>
    ELSE find_map(the_rest, i + 1, mounts)

\* `if let ancestor = parent { CACHE.insert(parent, ancestor) }`: the pattern
\* binds a new `ancestor` to `parent`, so the value stored is the parent
inserted_value(parent, ancestor) == parent

Insert(cache, key, value) ==
    [k \in DOMAIN cache \cup {key} |-> IF k = key THEN value ELSE cache[k]]

\* the closure `fallback`: <<Option<&Path>, cache afterwards>>
fallback(parent, the_rest, mounts, cache) ==
    LET found == find_map(the_rest, 1, mounts)
    IN  IF found = <<>>
        THEN <<found, cache>>
        ELSE <<found, Insert(cache, parent, inserted_value(parent, found[1]))>>

\* The closure's body is not in the source: the path itself is looked up
\* first, then the memoised result of its parent directory, then the walk
\* over the remaining ancestors.
get_opt_best_potential_mountpoint(path, mounts, cache) ==
    IF path \in DOMAIN mounts THEN <<(<<path>>), cache>>
    ELSE IF path = <<>> THEN <<(<<>>), cache>>
    ELSE LET parent == Parent(path)
         IN  IF parent \in DOMAIN cache
             THEN <<(<<cache[parent]>>), cache>>
             ELSE fallback(parent, Ancestors(parent), mounts, cache)

\* <<Result<PathBuf>, cache afterwards>>
get_proximate_dataset(path, mounts, cache) ==
    LET r == get_opt_best_potential_mountpoint(path, mounts, cache)
    IN  IF r[1] = <<>> THEN <<NoDataset, r[2]>> ELSE <<Ok(r[1][1]), r[2]>>

EmptyCache == [k \in {} |-> <<>>]

\* an empty directory tree
NoFiles == [k \in {} |-> <<>>]

\* Option<T>: None is <<>>, Some(v) is <<v>>
NoConfig == [user_defined |-> <<>>, opt_map_of_alts |-> <<>>, opt_map_of_snaps |-> <<>>]


-----------------------------------------------------------------------------
(* Search planning: DatasetsForSearch and the search bundles *)

ZFS_SNAPSHOT_DIRECTORY == <<".zfs", "snapshot">>

BTRFS_SNAPPER_HIDDEN_DIRECTORY == <<".snapshots">>

BTRFS_SNAPPER_SUFFIX == <<"snapshot">>

\* collect::<Result<Vec<_>, _>>(): the values, or the first error
collect(results) ==
    IF \A i \in DOMAIN results : results[i].ok
    THEN Ok([i \in DOMAIN results |-> results[i].val])
    ELSE results[CHOOSE i \in DOMAIN results :
                    /\ ~results[i].ok
                    /\ \A j \in DOMAIN results : ~results[j].ok => i <= j]

RECURSIVE FlattenOk(_, _)
\* flatten() over Results of vectors: errors yield nothing
FlattenOk(results, i) ==
    IF i > Len(results) THEN <<>>
    ELSE (IF results[i].ok THEN results[i].val ELSE <<>>) \o FlattenOk(results, i + 1)

\* the snapshot directory of a dataset of interest
snapshot_dir_of(dataset_of_interest, fs_type) ==
    IF fs_type = "Btrfs"
    THEN dataset_of_interest
    ELSE Join(dataset_of_interest, ZFS_SNAPSHOT_DIRECTORY)

\* HashMap::get
Get(map, key) == IF key \in DOMAIN map THEN <<map[key]>> ELSE <<>>

(* versions_lookup.rs: get_search_bundle *)

\* the DatasetsForSearch the call can work with
vl_datasets_for_search(cfg, mounts, file_path, requested_dataset_type) ==
    IF cfg.user_defined # <<>>
    THEN {Ok([immediate_dataset_mount |-> cfg.user_defined[1].snap_dir,
              datasets_of_interest |-> <<cfg.user_defined[1].snap_dir>>])}
    ELSE UNION {
           IF ~immediate.ok THEN {immediate}
           ELSE IF requested_dataset_type = "MostImmediate"
           THEN {Ok([immediate_dataset_mount |-> immediate.val,
                     datasets_of_interest |-> <<immediate.val>>])}
           ELSE IF cfg.opt_map_of_alts # <<>>
                   /\ Get(cfg.opt_map_of_alts[1], immediate.val) # <<>>
           THEN {Ok([immediate_dataset_mount |-> immediate.val,
                     datasets_of_interest |-> cfg.opt_map_of_alts[1][immediate.val]])}
           ELSE get_alt_replicated_datasets(immediate.val, mounts)
           : immediate \in get_immediate_dataset(file_path, mounts)}

vl_search_bundle(cfg, mounts, file_path, immediate_dataset_mount, dataset_of_interest) ==
    IF cfg.user_defined # <<>>
    THEN LET defined_dirs == cfg.user_defined[1]
             relative_path == StripPrefix(file_path, defined_dirs.local_dir)
         IN  IF ~relative_path.ok THEN relative_path
             ELSE Ok([snapshot_dir |-> snapshot_dir_of(dataset_of_interest, defined_dirs.fs_type),
                      relative_path |-> relative_path.val,
                      snapshot_mounts |-> <<>>])
    ELSE LET entry == Get(mounts, dataset_of_interest)
             relative_path == StripPrefix(file_path, immediate_dataset_mount)
         IN  IF ~relative_path.ok THEN relative_path
             ELSE Ok([snapshot_dir |->
                          snapshot_dir_of(dataset_of_interest,
                                          IF entry = <<>> THEN "Zfs" ELSE entry[1].fs_type),
                      relative_path |-> relative_path.val,
                      snapshot_mounts |->
                          IF cfg.opt_map_of_snaps = <<>> THEN <<>>
                          ELSE Get(cfg.opt_map_of_snaps[1], dataset_of_interest)])

\* the results the call can produce
vl_get_search_bundle(cfg, mounts, file_path, requested_dataset_type) ==
    {IF ~d.ok THEN d
     ELSE collect([i \in DOMAIN d.val.datasets_of_interest |->
                     vl_search_bundle(cfg, mounts, file_path,
                                      d.val.immediate_dataset_mount,
                                      d.val.datasets_of_interest[i])])
     : d \in vl_datasets_for_search(cfg, mounts, file_path, requested_dataset_type)}

\* get_versions_set: the policies the flag selects
vl_selected_datasets(opt_alt_replicated) ==
    IF opt_alt_replicated
    THEN <<"AltReplicated", "MostImmediate">>
    ELSE <<"MostImmediate">>

(* lookup_versions.rs: get_datasets_for_search, get_search_bundle *)

\* <<Result<DatasetsForSearch>, cache afterwards>>
get_datasets_for_search(cfg, mounts, path, requested_dataset_type, cache) ==
    IF cfg.user_defined # <<>>
    THEN <<Ok([proximate_dataset_mount |-> cfg.user_defined[1].snap_dir,
               datasets_of_interest |-> <<cfg.user_defined[1].snap_dir>>]), cache>>
    ELSE LET r == get_proximate_dataset(path, mounts, cache)
             proximate_dataset_mount == r[1]
         IN  IF ~proximate_dataset_mount.ok THEN r
             ELSE IF requested_dataset_type = "MostProximate"
             THEN <<Ok([proximate_dataset_mount |-> proximate_dataset_mount.val,
                        datasets_of_interest |-> <<proximate_dataset_mount.val>>]), r[2]>>
             ELSE IF cfg.opt_map_of_alts = <<>>
             THEN <<Err("unreachable"), r[2]>>
             ELSE LET alternate_mounts == Get(cfg.opt_map_of_alts[1], proximate_dataset_mount.val)
                  IN  IF alternate_mounts = <<>>
                      THEN <<NoAltReplica, r[2]>>
                      ELSE <<Ok([proximate_dataset_mount |-> proximate_dataset_mount.val,
                                 datasets_of_interest |-> alternate_mounts[1]]), r[2]>>

lv_search_bundle(cfg, mounts, path, proximate_dataset_mount, dataset_of_interest) ==
    IF cfg.user_defined # <<>>
    THEN LET defined_dirs == cfg.user_defined[1]
             relative_path == StripPrefix(path, defined_dirs.local_dir)
         IN  IF ~relative_path.ok THEN relative_path
             ELSE Ok([snapshot_dir |-> snapshot_dir_of(dataset_of_interest, defined_dirs.fs_type),
                      relative_path |-> relative_path.val,
                      fs_type |-> defined_dirs.fs_type,
                      opt_snap_mounts |-> <<>>])
    ELSE LET entry == Get(mounts, dataset_of_interest)
             fs_type == IF entry = <<>> THEN "Zfs" ELSE entry[1].fs_type
             relative_path == StripPrefix(path, proximate_dataset_mount)
         IN  IF ~relative_path.ok THEN relative_path
             ELSE Ok([snapshot_dir |-> snapshot_dir_of(dataset_of_interest, fs_type),
                      relative_path |-> relative_path.val,
                      fs_type |-> fs_type,
                      opt_snap_mounts |-> Get(cfg.opt_map_of_snaps[1], dataset_of_interest)])

lv_get_search_bundle(cfg, mounts, path, datasets_for_search) ==
    collect([i \in DOMAIN datasets_for_search.datasets_of_interest |->
               lv_search_bundle(cfg, mounts, path,
                                datasets_for_search.proximate_dataset_mount,
                                datasets_for_search.datasets_of_interest[i])])

\* the element of a one-element set
The(S) == CHOOSE x \in S : TRUE

RECURSIVE lv_search_bundles(_, _, _, _, _, _)
\* get_all_snap_versions, for one path: a Result<Vec<FileSearchBundle>> per
\* policy, the policies taken in list order: <<results, cache afterwards>>
lv_search_bundles(cfg, mounts, path, selected_datasets, i, cache) ==
    IF i > Len(selected_datasets) THEN <<(<<>>), cache>>
    ELSE The({The({<<(<<IF ~d[1].ok THEN d[1]
                         ELSE lv_get_search_bundle(cfg, mounts, path, d[1].val)>>)
                     \o rest[1],
                     rest[2]>>
                   : rest \in {lv_search_bundles(cfg, mounts, path, selected_datasets,
                                                 i + 1, d[2])}})
              : d \in {get_datasets_for_search(cfg, mounts, path, selected_datasets[i],
                                               cache)}})

-----------------------------------------------------------------------------
(* The file system, and the enumeration of versions *)

Range(f) == {f[x] : x \in DOMAIN f}

\* every file the model knows: the live ones, the snapshot mounts, their files
KnownPaths(tree, lv) ==
    DOMAIN lv \cup DOMAIN tree
    \cup UNION {{Join(m, r) : r \in DOMAIN tree[m]} : m \in DOMAIN tree}

DirMetadata == [system_time |-> 1, size |-> 0, is_dir |-> TRUE]

\* path.metadata().ok()
metadata(tree, lv, path) ==
    IF path \in DOMAIN lv THEN <<lv[path]>>
    ELSE IF \E m \in DOMAIN tree :
               StartsWith(path, m) /\ StripPrefix(path, m).val \in DOMAIN tree[m]
    THEN LET m == CHOOSE m \in DOMAIN tree :
                     StartsWith(path, m) /\ StripPrefix(path, m).val \in DOMAIN tree[m]
         IN  <<tree[m][StripPrefix(path, m).val]>>
    ELSE IF \E q \in KnownPaths(tree, lv) : StartsWith(q, path)
    THEN <<DirMetadata>>    \* a directory on the way to a known file
    ELSE <<>>

\* the entries of a directory
Children(tree, lv, dir) ==
    {SubSeq(q, 1, Len(dir) + 1) :
        q \in {k \in KnownPaths(tree, lv) : StartsWith(k, dir) /\ Len(k) > Len(dir)}}

IsDir(tree, lv, dir) ==
    /\ metadata(tree, lv, dir) # <<>>
    /\ metadata(tree, lv, dir)[1].is_dir

\* read_dir(dir): the entries in any order, or an error
read_dir(tree, lv, dir) ==
    IF ~IsDir(tree, lv, dir) THEN {Err("ReadDirFailed")}
    ELSE {Ok(o) : o \in Orderings(Children(tree, lv, dir))}

\* PathData::from_parts
PathData_from_parts(path, opt_metadata) ==
    IF opt_metadata = <<>>
    THEN [path_buf |-> path, system_time |-> 0, size |-> 0, is_phantom |-> TRUE]
    ELSE [path_buf |-> path, system_time |-> opt_metadata[1].system_time,
          size |-> opt_metadata[1].size, is_phantom |-> FALSE]

\* PathData::from
PathData_from(tree, lv, path) == PathData_from_parts(path, metadata(tree, lv, path))

\* keyed by the path: nothing collapses
version_key_path(pathdata) == pathdata.path_buf

\* the key of the map of unique versions
version_key(pathdata) == <<pathdata.system_time, pathdata.size>>

\* collect() into a HashMap: of the entries with one key, the last one stays
collect_map(entries) ==
    [k \in {version_key(entries[i]) : i \in DOMAIN entries} |->
        entries[CHOOSE i \in DOMAIN entries :
                   /\ version_key(entries[i]) = k
                   /\ \A j \in DOMAIN entries : version_key(entries[j]) = k => j <= i]]

\* into_values() alone: the values as the map holds them, in any order
into_values(S) == Orderings(S)

\* the values sorted the other way round, newest first
sort_unstable_by_time_descending(S) ==
    {f \in Orderings(S) :
        \A i, j \in DOMAIN f : i < j => f[i].system_time >= f[j].system_time}

\* par_sort_unstable_by_key(|pathdata| pathdata.system_time), on the values
\* of the map: entries with equal time in any order
sort_unstable_by_time(S) ==
    {f \in Orderings(S) :
        \A i, j \in DOMAIN f : i < j => f[i].system_time <= f[j].system_time}

\* the versions found at the candidate snapshot mounts, taken in this order
versions_at(tree, lv, snap_mounts, relative_path) ==
    LET found == [i \in DOMAIN snap_mounts |->
                     PathData_from(tree, lv, Join(snap_mounts[i], relative_path))]
        present(pathdata) == ~pathdata.is_phantom
    IN  collect_map(SelectSeq(found, present))

\* versions_lookup.rs: the candidate lists the enumerator can go through
vl_candidates(cfg, tree, lv, search_bundle) ==
    IF /\ cfg.user_defined = <<>>
       /\ cfg.opt_map_of_snaps # <<>>
       /\ search_bundle.snapshot_mounts # <<>>
    THEN {Ok(search_bundle.snapshot_mounts[1])}
    ELSE read_dir(tree, lv, search_bundle.snapshot_dir)

vl_get_versions_per_dataset(cfg, tree, lv, search_bundle) ==
    UNION {IF ~c.ok THEN {c}
           ELSE {Ok(v) : v \in sort_unstable_by_time(
                                  Range(versions_at(tree, lv, c.val,
                                                    search_bundle.relative_path)))}
           : c \in vl_candidates(cfg, tree, lv, search_bundle)}

\* lookup_versions.rs
prep_lookup_read_dir(tree, lv, snapshot_dir, fs_type) ==
    {IF ~paths.ok THEN paths
     ELSE Ok([i \in DOMAIN paths.val |->
                IF fs_type = "Btrfs"
                THEN Join(paths.val[i], BTRFS_SNAPPER_SUFFIX)
                ELSE paths.val[i]])
     : paths \in read_dir(tree, lv,
                          IF fs_type = "Btrfs"
                          THEN Join(snapshot_dir, BTRFS_SNAPPER_HIDDEN_DIRECTORY)
                          ELSE snapshot_dir)}

lv_candidates(cfg, tree, lv, search_bundle) ==
    IF cfg.user_defined = <<>>
    THEN IF search_bundle.opt_snap_mounts # <<>>
         THEN {Ok(search_bundle.opt_snap_mounts[1])}
         ELSE {Err("NoSnapMounts")}
    ELSE prep_lookup_read_dir(tree, lv, search_bundle.snapshot_dir, search_bundle.fs_type)

lv_get_versions_per_dataset(cfg, tree, lv, search_bundle) ==
    UNION {IF ~c.ok THEN {c}
           ELSE {Ok(v) : v \in sort_unstable_by_time(
                                  Range(versions_at(tree, lv, c.val,
                                                    search_bundle.relative_path)))}
           : c \in lv_candidates(cfg, tree, lv, search_bundle)}

RECURSIVE Choices(_)
\* one element of every set of a sequence of sets
Choices(sets) ==
    IF sets = <<>> THEN {<<>>}
    ELSE {<<h>> \o t : h \in Head(sets), t \in Choices(Tail(sets))}

\* the paths and the policies, paths outermost
path_policy_pairs(pathdata, selected_datasets) ==
    [k \in 1..(Len(pathdata) * Len(selected_datasets)) |->
        <<pathdata[((k - 1) \div Len(selected_datasets)) + 1],
          selected_datasets[((k - 1) % Len(selected_datasets)) + 1]>>]

\* versions_lookup.rs, get_all_snap_versions: the lists it can return
vl_get_all_snap_versions(cfg, mounts, tree, lv, pathdata, selected_datasets) ==
    LET pairs == path_policy_pairs(pathdata, selected_datasets)
        bundles_of(k) == vl_get_search_bundle(cfg, mounts, pairs[k][1], pairs[k][2])
        versions_of(bundles) ==
            {FlattenOk(vc, 1) :
                vc \in Choices([b \in DOMAIN bundles |->
                                  vl_get_versions_per_dataset(cfg, tree, lv, bundles[b])])}
    IN  UNION {versions_of(FlattenOk(bc, 1)) :
                  bc \in Choices([k \in DOMAIN pairs |-> bundles_of(k)])}

RECURSIVE lv_all_search_bundles(_, _, _, _, _, _)
\* lookup_versions.rs, get_all_snap_versions: the bundles of the paths, taken
\* in order: <<bundles, cache afterwards>>
lv_all_search_bundles(cfg, mounts, vec_pathdata, selected_datasets, j, cache) ==
    IF j > Len(vec_pathdata) THEN <<(<<>>), cache>>
    ELSE The({The({<<FlattenOk(here[1], 1) \o rest[1], rest[2]>>
                   : rest \in {lv_all_search_bundles(cfg, mounts, vec_pathdata,
                                                     selected_datasets, j + 1, here[2])}})
              : here \in {lv_search_bundles(cfg, mounts, vec_pathdata[j],
                                            selected_datasets, 1, cache)}})

\* lookup_versions.rs, get_all_snap_versions: <<lists it can return, cache>>
lv_get_all_snap_versions(cfg, mounts, tree, lv, vec_pathdata, selected_datasets, cache) ==
    LET b == lv_all_search_bundles(cfg, mounts, vec_pathdata, selected_datasets, 1, cache)
    IN  <<{FlattenOk(vc, 1) :
              vc \in Choices([i \in DOMAIN b[1] |->
                                lv_get_versions_per_dataset(cfg, tree, lv, b[1][i])])},
          b[2]>>

NoVersionsFound == Err("NoVersionsFound")

\* no live copy is handed on
no_live_copies(tree, lv, pathdata) == <<>>

\* the live copies of the paths asked about
live_copies(tree, lv, pathdata) ==
    [i \in DOMAIN pathdata |-> PathData_from(tree, lv, pathdata[i])]

\* whatever was found is returned, nothing included
get_versions_set_unchecked(cfg, mounts, tree, lv, pathdata, opt_alt_replicated, opt_no_live_vers) ==
    {Ok(<<all_snap_versions,
          IF ~opt_no_live_vers THEN live_copies(tree, lv, pathdata) ELSE <<>> >>)
     : all_snap_versions \in
         vl_get_all_snap_versions(cfg, mounts, tree, lv, pathdata,
                                  vl_selected_datasets(opt_alt_replicated))}

\* versions_lookup.rs, get_versions_set: the results it can return
get_versions_set(cfg, mounts, tree, lv, pathdata, opt_alt_replicated, opt_no_live_vers) ==
    LET live_versions == IF ~opt_no_live_vers THEN live_copies(tree, lv, pathdata) ELSE <<>>
    IN  {IF all_snap_versions = <<>>
            /\ \A i \in DOMAIN live_versions : live_versions[i].is_phantom
         THEN NoVersionsFound
         ELSE Ok(<<all_snap_versions, live_versions>>)
         : all_snap_versions \in
             vl_get_all_snap_versions(cfg, mounts, tree, lv, pathdata,
                                      vl_selected_datasets(opt_alt_replicated))}

\* lookup_versions.rs, versions_lookup_exec: <<results it can return, cache>>
versions_lookup_exec(cfg, mounts, tree, lv, vec_pathdata, selected_datasets, opt_no_snap, opt_no_live, cache) ==
    LET r == IF opt_no_snap THEN <<{<<>>}, cache>>
             ELSE lv_get_all_snap_versions(cfg, mounts, tree, lv, vec_pathdata,
                                           selected_datasets, cache)
        live_versions == IF opt_no_live THEN <<>> ELSE live_copies(tree, lv, vec_pathdata)
    IN  <<{IF /\ all_snap_versions = <<>>
              /\ \A i \in DOMAIN live_versions : live_versions[i].is_phantom
              /\ ~opt_no_snap
           THEN NoVersionsFound
           ELSE Ok(<<all_snap_versions, live_versions>>)
           : all_snap_versions \in r[1]},
          r[2]>>

-----------------------------------------------------------------------------
(* deleted_lookup.rs: the files snapshots hold that the live directory lacks *)

\* BasicDirEntryInfo of a directory entry
BasicDirEntryInfo(path) == [file_name |-> path[Len(path)], path |-> path]

\* no listing yields an entry
no_entries_of(tree, lv, dir) == {}

\* flat_map(|path| read_dir(&path)): the entries, none if the listing fails
entries_of(tree, lv, dir) ==
    IF IsDir(tree, lv, dir) THEN Children(tree, lv, dir) ELSE {}

\* collect() into a HashMap keyed by file name, over the listings of the
\* directories taken in this order: of the entries with one name the last stays
collect_snap_filenames(tree, lv, dirs) ==
    [n \in {e[Len(e)] : e \in UNION {entries_of(tree, lv, dirs[i]) : i \in DOMAIN dirs}} |->
        LET last == CHOOSE i \in DOMAIN dirs :
                       /\ \E e \in entries_of(tree, lv, dirs[i]) : e[Len(e)] = n
                       /\ \A j \in DOMAIN dirs :
                             (\E e \in entries_of(tree, lv, dirs[j]) : e[Len(e)] = n) => j <= i
        IN  BasicDirEntryInfo(Join(dirs[last], <<n>>))]

\* no live file name hides anything
not_in_live_none(file_name, unique_local_filenames) == TRUE

\* unique_local_filenames.get(file_name).is_none()
not_in_live(file_name, unique_local_filenames) == file_name \notin unique_local_filenames

\* the results the call can return
get_deleted_per_dataset(cfg, tree, lv, requested_dir, search_bundle) ==
    IF ~IsDir(tree, lv, requested_dir) THEN {Err("ReadDirFailed")}
    ELSE LET unique_local_filenames ==
                 {e[Len(e)] : e \in Children(tree, lv, requested_dir)}
             deleted(unique_snap_filenames) ==
                 {unique_snap_filenames[n] :
                     n \in {k \in DOMAIN unique_snap_filenames :
                              not_in_live(k, unique_local_filenames)}}
         IN  UNION {IF ~c.ok THEN {c}
                    ELSE {Ok(v) :
                            v \in Orderings(deleted(collect_snap_filenames(tree, lv,
                                    [i \in DOMAIN c.val |->
                                       Join(c.val[i], search_bundle.relative_path)])))}
                    : c \in vl_candidates(cfg, tree, lv, search_bundle)}

\* grouped by where the entry lies
group_by_path(basic_dir_entry_info) == basic_dir_entry_info.path

\* the key of into_group_map_by: the file name
group_by_file_name(basic_dir_entry_info) == basic_dir_entry_info.file_name

\* max_by_key(modify_time) over the group of a file name: the last of the
\* entries with the greatest time
max_by_key(entries, file_name) ==
    entries[CHOOSE i \in DOMAIN entries :
               /\ group_by_file_name(entries[i][2]) = file_name
               /\ \A j \in DOMAIN entries :
                     group_by_file_name(entries[j][2]) = file_name
                     => \/ entries[j][1] < entries[i][1]
                        \/ entries[j][1] = entries[i][1] /\ j <= i][2]

\* the results the call can return
get_unique_deleted(cfg, mounts, tree, lv, requested_dir, opt_alt_replicated) ==
    LET selected_datasets == vl_selected_datasets(opt_alt_replicated)
        unique(found) ==
            LET timed == [i \in DOMAIN found |->
                            <<metadata(tree, lv, found[i].path), found[i]>>]
                known(t) == t[1] # <<>>
                with_time == [i \in DOMAIN SelectSeq(timed, known) |->
                                <<SelectSeq(timed, known)[i][1][1].system_time,
                                  SelectSeq(timed, known)[i][2]>>]
            IN  {max_by_key(with_time, n) :
                    n \in {group_by_file_name(with_time[i][2]) : i \in DOMAIN with_time}}
        of_bundles(bundles) ==
            UNION {{Ok(o) : o \in Orderings(unique(FlattenOk(dc, 1)))} :
                      dc \in Choices([b \in DOMAIN bundles |->
                                        get_deleted_per_dataset(cfg, tree, lv, requested_dir,
                                                                bundles[b])])}
    IN  UNION {of_bundles(FlattenOk(bc, 1)) :
                  bc \in Choices([k \in DOMAIN selected_datasets |->
                                    vl_get_search_bundle(cfg, mounts, requested_dir,
                                                         selected_datasets[k])])}

-----------------------------------------------------------------------------
(* lookup_versions.rs: get_mounts_for_files *)

RECURSIVE datasets_of_path(_, _, _, _, _, _)
\* selected_datasets.iter().flat_map(get_datasets_for_search): the
\* DatasetsForSearch of the policies that succeed: <<datasets, cache afterwards>>
datasets_of_path(cfg, mounts, path, selected_datasets, i, cache) ==
    IF i > Len(selected_datasets) THEN <<(<<>>), cache>>
    ELSE The({The({<<(IF d[1].ok THEN <<d[1].val>> ELSE <<>>) \o rest[1], rest[2]>>
                   : rest \in {datasets_of_path(cfg, mounts, path, selected_datasets,
                                                i + 1, d[2])}})
              : d \in {get_datasets_for_search(cfg, mounts, path, selected_datasets[i],
                                               cache)}})

RECURSIVE datasets_of_paths(_, _, _, _, _, _)
\* the same for the paths, one after the other
datasets_of_paths(cfg, mounts, paths, selected_datasets, j, cache) ==
    IF j > Len(paths) THEN <<(<<>>), cache>>
    ELSE The({The({<<(<<here[1]>>) \o rest[1], rest[2]>>
                   : rest \in {datasets_of_paths(cfg, mounts, paths, selected_datasets,
                                                 j + 1, here[2])}})
              : here \in {datasets_of_path(cfg, mounts, paths[j], selected_datasets,
                                           1, cache)}})

RECURSIVE Flatten(_, _)
Flatten(seqs, i) == IF i > Len(seqs) THEN <<>> ELSE seqs[i] \o Flatten(seqs, i + 1)

\* .rev()
Reverse(seq) == [i \in DOMAIN seq |-> seq[Len(seq) + 1 - i]]

\* nothing is held back: the phantom paths are looked up as well
keep_all(tree, lv, paths) == paths

\* partition(|pathdata| pathdata.is_phantom): the paths that exist
non_phantom_files(tree, lv, paths) ==
    SelectSeq(paths, LAMBDA path : ~PathData_from(tree, lv, path).is_phantom)

\* into_group_map_by(pathdata): where a path stands among the files
positions(files, path) ==
    SelectSeq([j \in DOMAIN files |-> j], LAMBDA j : files[j] = path)

\* flat_map(datasets_for_search.datasets_of_interest)
datasets_of_interest_of(vec_datasets_for_search) ==
    Flatten([n \in DOMAIN vec_datasets_for_search |->
               vec_datasets_for_search[n].datasets_of_interest], 1)

\* <<the map path -> mounts, cache afterwards>>
get_mounts_for_files(cfg, mounts, tree, lv, paths, exec_mode, selected_datasets, cache) ==
    LET files == non_phantom_files(tree, lv, paths)
        selected == IF exec_mode = "SnapFileMount"
                    THEN <<"MostProximate">>
                    ELSE selected_datasets
    IN  The({<<[path \in Range(files) |->
                  Reverse(Flatten([k \in DOMAIN positions(files, path) |->
                                     datasets_of_interest_of(r[1][positions(files, path)[k]])],
                                  1))],
              r[2]>>
             : r \in {datasets_of_paths(cfg, mounts, files, selected, 1, cache)}})

-----------------------------------------------------------------------------
(* snapshot_ops.rs: take_snapshot *)

HttmError(msg) == Err(<<msg>>)

UnsupportedAlias ==
    HttmError("httm does not currently support snapshot-ing user defined mount points.")

UnsupportedFilesystem ==
    HttmError("httm does not currently support snapshot-ing non-ZFS filesystems.")

UnparsedDataset == HttmError("httm was unable to parse dataset from mount!")

ZfsNotFound ==
    HttmError("'zfs' command not found. Make sure the command 'zfs' is in your path.")

NeedsPrivilege == HttmError("httm must have root privileges to snapshot a filesystem")

SnapshotToolFailure(stderr_string) ==
    Err(<<"httm was unable to take snapshots. The 'zfs' command issued the following error: ">>
        \o stderr_string)

\* the file system type is not looked at
dataset_of_any_fs(cfg, mounts, mount) ==
    IF cfg.user_defined # <<>> THEN UnsupportedAlias
    ELSE IF Get(mounts, mount) = <<>> THEN UnparsedDataset
    ELSE Ok(Get(mounts, mount)[1].name)

\* match &config.dataset_collection.opt_map_of_aliases { ... }
dataset_of(cfg, mounts, mount) ==
    IF cfg.user_defined # <<>> THEN UnsupportedAlias
    ELSE LET dataset_info == Get(mounts, mount)
         IN  IF dataset_info = <<>> THEN UnparsedDataset
             ELSE IF dataset_info[1].fs_type = "Zfs" THEN Ok(dataset_info[1].name)
             ELSE UnsupportedFilesystem

\* the name without the timestamp
format_undated(dataset, timestamp) == dataset \o <<"@", "snap_", "_httmSnapFileMount">>

\* format!("{}@snap_{}_httmSnapFileMount", dataset, timestamp)
format_snapshot_name(dataset, timestamp) ==
    dataset \o <<"@", "snap_", timestamp, "_httmSnapFileMount">>

\* the snapshot name of one mount, or why there is none
snapshot_name_of(cfg, mounts, mount, timestamp) ==
    LET dataset == dataset_of(cfg, mounts, mount)
    IN  IF ~dataset.ok THEN dataset
        ELSE Ok(format_snapshot_name(dataset.val, timestamp))

\* mounts_for_files.iter().flat_map(datasets): the mounts, in the order of the keys
mounts_in_order(mounts_for_files, keys) ==
    Flatten([i \in DOMAIN keys |-> mounts_for_files[keys[i]]], 1)

\* the names of the mounts that validate, the other mounts passed over
valid_snapshot_names(cfg, mounts, mounts_for_files, keys, timestamp) ==
    Ok(FlattenOk([i \in DOMAIN mounts_in_order(mounts_for_files, keys) |->
                    LET name == snapshot_name_of(cfg, mounts,
                                                 mounts_in_order(mounts_for_files, keys)[i],
                                                 timestamp)
                    IN  IF name.ok THEN Ok(<<name.val>>) ELSE name], 1))

\* ....collect::<Result<Vec<String>, HttmError>>()
vec_snapshot_names(cfg, mounts, mounts_for_files, keys, timestamp) ==
    collect([i \in DOMAIN mounts_in_order(mounts_for_files, keys) |->
               snapshot_name_of(cfg, mounts, mounts_in_order(mounts_for_files, keys)[i],
                                timestamp)])

\* str::split_once: what stands before and after the first delimiter
split_once(string, delimiter) ==
    IF \E i \in DOMAIN string : string[i] = delimiter
    THEN LET i == CHOOSE i \in DOMAIN string :
                       /\ string[i] = delimiter
                       /\ \A j \in 1..(i - 1) : string[j] # delimiter
         IN  <<(<<SubSeq(string, 1, i - 1), SubSeq(string, i + 1, Len(string))>>)>>
    ELSE <<>>

\* every name falls into one and the same group
no_pool_name(snapshot_name) == <<>>

\* the key of into_group_map_by: the snapshot name up to its first '/'
pool_name(snapshot_name) ==
    LET split == split_once(snapshot_name, "/")
    IN  IF split = <<>> THEN snapshot_name ELSE split[1][1]

\* the bytes names are compared by; "snap_" and "_httmSnapFileMount" stand in
\* a name where they stand in every other name, so their first byte orders them
Code(c) ==
    CASE c = "/" -> 47
      [] c = "1" -> 49
      [] c = "2" -> 50
      [] c = "@" -> 64
      [] c = "_httmSnapFileMount" -> 95
      [] c = "d" -> 100
      [] c = "h" -> 104
      [] c = "r" -> 114
      [] c = "snap_" -> 115
      [] c = "t" -> 116

RECURSIVE str_lt(_, _)
\* String's Ord: byte by byte, a prefix before what it is a prefix of
str_lt(a, b) ==
    IF b = <<>> THEN FALSE
    ELSE IF a = <<>> THEN TRUE
    ELSE IF a[1] # b[1] THEN Code(a[1]) < Code(b[1])
    ELSE str_lt(Tail(a), Tail(b))

\* a sequence without its i-th element
RemoveAt(seq, i) == SubSeq(seq, 1, i - 1) \o SubSeq(seq, i + 1, Len(seq))

\* the group as it was collected
unsorted(group) == group

RECURSIVE sort(_)
\* group.sort()
sort(group) ==
    IF group = <<>> THEN <<>>
    ELSE LET i == CHOOSE i \in DOMAIN group :
                       \A j \in DOMAIN group : ~str_lt(group[j], group[i])
         IN  <<group[i]>> \o sort(RemoveAt(group, i))

\* group.dedup(): of equal neighbours the first stays
dedup(group) ==
    Flatten([i \in DOMAIN group |->
               IF i > 1 /\ group[i] = group[i - 1] THEN <<>> ELSE <<group[i]>>], 1)

\* the keys from the greatest to the least
descending_keys(keys) == Reverse(sort(CHOOSE seq \in Orderings(keys) : TRUE))

\* the keys of a BTreeMap<String, _>, in the order it iterates them
sorted_keys(keys) == sort(CHOOSE seq \in Orderings(keys) : TRUE)

\* into_group_map_by(pool_name), each group sorted and deduplicated, collected
\* into a BTreeMap: the groups in the order of their keys
map_snapshot_names(names) ==
    LET keys == sorted_keys({pool_name(names[i]) : i \in DOMAIN names})
    IN  [k \in DOMAIN keys |->
           dedup(sort(SelectSeq(names, LAMBDA name : pool_name(name) = keys[k])))]

\* stderr as it is
untrimmed(stderr) == stderr

RECURSIVE trim_start(_)
trim_start(stderr) ==
    IF stderr # <<>> /\ stderr[1] = " " THEN trim_start(Tail(stderr)) ELSE stderr

\* str::trim: without the white space at both ends
trim(stderr) == Reverse(trim_start(Reverse(trim_start(stderr))))

PermissionDenied == "cannot create snapshots : permission denied"

\* str::contains
contains(stderr_string, pattern) == \E i \in DOMAIN stderr_string : stderr_string[i] = pattern

\* what one invocation of the utility makes of its stderr
snapshot_outcome(stderr) ==
    LET stderr_string == trim(stderr)
    IN  IF stderr_string # <<>>
        THEN IF contains(stderr_string, PermissionDenied)
             THEN NeedsPrivilege
             ELSE SnapshotToolFailure(stderr_string)
        ELSE Ok(<<>>)

-----------------------------------------------------------------------------
(* The mount table *)

RootDs == <<"r">>

\* the file systems a mount table is drawn from
MountPoints == {<<>>, <<"home">>, <<"home", "etc">>}

EntryOf(mount) ==
    [name |-> IF mount = <<>> THEN RootDs ELSE RootDs \o <<"/">> \o mount,
     fs_type |-> "Zfs"]

ResolverIndexes == {[m \in S |-> EntryOf(m)] : S \in SUBSET MountPoints}

-----------------------------------------------------------------------------
(* The resolvers, queried again and again within one process *)

Idle == [op |-> "none", path |-> <<>>]

InitResolver ==
    /\ map_of_datasets \in ResolverIndexes
    /\ config = NoConfig
    /\ snap_tree = NoFiles
    /\ live = NoFiles
    /\ CACHE = EmptyCache
    /\ call = Idle
    /\ ret = Ok(<<>>)
    /\ issued = <<>>

ImmediateQuery(path) ==
    /\ call' = [op |-> "get_immediate_dataset", path |-> path]
    /\ ret' \in get_immediate_dataset(path, map_of_datasets)
    /\ UNCHANGED <<env, CACHE, issued>>

ProximateQuery(path) ==
    LET r == get_proximate_dataset(path, map_of_datasets, CACHE)
    IN  /\ Cardinality(DOMAIN r[2]) <= MaxCached
        /\ call' = [op |-> "get_proximate_dataset", path |-> path]
        /\ ret' = r[1]
        /\ CACHE' = r[2]
        /\ UNCHANGED <<env, issued>>

NextResolver ==
    \E path \in PathsUpTo(MaxDepth) :
        \/ ImmediateQuery(path)
        \/ ProximateQuery(path)

SpecResolver == InitResolver /\ [][NextResolver]_vars

-----------------------------------------------------------------------------
(* Properties of the resolvers *)

\* m is p or a directory above p
IsAncestorOrSelf(m, p) == \E k \in 0..Len(p) : m = SubSeq(p, 1, k)

MountAncestors(p) == {m \in DOMAIN map_of_datasets : IsAncestorOrSelf(m, p)}

Resolved == call.op \in {"get_immediate_dataset", "get_proximate_dataset"}

\* C1: whenever some mount is an ancestor of the queried path (the path
\* itself included), the resolver returns the longest such mount.
C1_LongestAncestor ==
    (Resolved /\ MountAncestors(call.path) # {}) =>
        /\ ret.ok
        /\ ret.val \in MountAncestors(call.path)
        /\ \A m \in MountAncestors(call.path) : Len(m) <= Len(ret.val)

\* C2: the resolver returns NoDataset exactly when no mount is an ancestor
\* of the path, and what it returns otherwise is an ancestor of the path.
C2_NoDatasetIffNoAncestor ==
    Resolved =>
        /\ (ret = NoDataset) <=> (MountAncestors(call.path) = {})
        /\ ret.ok => IsAncestorOrSelf(ret.val, call.path)
        /\ ret.ok \/ ret = NoDataset

\* a query below a non-empty mount table that ends in NoDataset, returned
\* as a value: the next query can follow
C2_Witness ==
    /\ call.op = "get_proximate_dataset"
    /\ DOMAIN map_of_datasets # {}
    /\ ret = NoDataset
    /\ ENABLED NextResolver

\* C3: a query of the memoising resolver returns what it returns with an
\* empty cache, and the same query asked twice in a row returns the same.
C3_Idempotent ==
    [][call'.op = "get_proximate_dataset" =>
         /\ ret' = get_proximate_dataset(call'.path, map_of_datasets, EmptyCache)[1]
         /\ (call = call' => ret' = ret)]_vars


-----------------------------------------------------------------------------
(* The alternate-replica finder on mount tables whose dataset names vary *)

\* dataset names: r, r/h, t/r, t/r/h
DatasetNames ==
    {<<"r">>, <<"r", "/", "h">>, <<"t", "/", "r">>, <<"t", "/", "r", "/", "h">>}

\* "/", "/home", "/etc", "/etc/home", "/home/etc": lengths 1, 5, 4, 9, 9
AltMountPoints ==
    {<<>>, <<"home">>, <<"etc">>, <<"etc", "home">>, <<"home", "etc">>}

AltIndexes ==
    UNION {[S -> [name : DatasetNames, fs_type : {"Zfs"}]] :
             S \in {T \in SUBSET AltMountPoints : Cardinality(T) <= MaxMounts}}

InitAlt ==
    /\ map_of_datasets \in AltIndexes
    /\ config = NoConfig
    /\ snap_tree = NoFiles
    /\ live = NoFiles
    /\ CACHE = EmptyCache
    /\ call = Idle
    /\ ret = Ok(<<>>)
    /\ issued = <<>>

AltQuery(mount) ==
    /\ call' = [op |-> "get_alt_replicated_datasets", path |-> mount]
    /\ ret' \in get_alt_replicated_datasets(mount, map_of_datasets)
    /\ UNCHANGED <<env, CACHE, issued>>

NextAlt == \E mount \in AltMountPoints : AltQuery(mount)

SpecAlt == InitAlt /\ [][NextAlt]_vars

\* a is a proper or improper suffix of b
IsSuffix(a, b) == \E k \in 0..Len(b) : SubSeq(b, k + 1, Len(b)) = a

\* the alternates of a mount M named N, as the specification defines them
Alternates(M) ==
    {m \in DOMAIN map_of_datasets :
        /\ map_of_datasets[m].name # map_of_datasets[M].name
        /\ IsSuffix(map_of_datasets[M].name, map_of_datasets[m].name)}

\* C4: for a mount M named N the finder returns exactly the mounts whose
\* dataset name differs from N and ends with N, each once, in ascending
\* order of the byte length of the mount path; never M, never a mount
\* named N; and no list at all when there is none.
C4_AltReplicas ==
    (call.op = "get_alt_replicated_datasets" /\ call.path \in DOMAIN map_of_datasets) =>
        LET M == call.path
        IN  IF Alternates(M) = {}
            THEN ret = NoAltReplica
            ELSE /\ ret.ok
                 /\ ret.val.immediate_dataset_mount = M
                 /\ LET doi == ret.val.datasets_of_interest
                     IN  /\ {doi[i] : i \in DOMAIN doi} = Alternates(M)
                         /\ Len(doi) = Cardinality(Alternates(M))
                         /\ \A i, j \in DOMAIN doi : i < j => OsLen(doi[i]) <= OsLen(doi[j])
                         /\ \A i \in DOMAIN doi :
                                /\ doi[i] # M
                                /\ map_of_datasets[doi[i]].name # map_of_datasets[M].name

\* two replicas of different path lengths are returned, the shorter first,
\* from a mount table of three file systems
C4_Witness ==
    /\ call.op = "get_alt_replicated_datasets"
    /\ ret.ok
    /\ Len(ret.val.datasets_of_interest) = 2
    /\ OsLen(ret.val.datasets_of_interest[1]) < OsLen(ret.val.datasets_of_interest[2])
    /\ Cardinality(DOMAIN map_of_datasets) = 3

-----------------------------------------------------------------------------
(* The environment of a lookup: mount table, snapshots, configuration *)

SnapNames == <<"s1", "s2">>

\* where the snapshot named s of the dataset mounted at D is mounted
SnapMount(D, fs_type, s) ==
    IF fs_type = "Btrfs"
    THEN D \o BTRFS_SNAPPER_HIDDEN_DIRECTORY \o <<s>> \o BTRFS_SNAPPER_SUFFIX
    ELSE D \o ZFS_SNAPSHOT_DIRECTORY \o <<s>>

\* the snapshot mounts of the dataset mounted at D that exist in the tree
SnapMountsOf(D, mounts, tree) ==
    {SnapMount(D, mounts[D].fs_type, SnapNames[i]) : i \in DOMAIN SnapNames} \cap DOMAIN tree

\* the snapshot mounts of D in the order of their names, or in the reverse
ListedSnapMounts(D, mounts, tree, reversed) ==
    LET named == SelectSeq(SnapNames,
                           LAMBDA n : SnapMount(D, mounts[D].fs_type, n) \in DOMAIN tree)
    IN  [i \in DOMAIN named |->
            SnapMount(D, mounts[D].fs_type,
                      named[IF reversed THEN Len(named) + 1 - i ELSE i])]

\* map_of_snaps as the mount table gives it: every dataset that has snapshot
\* mounts, with these listed oldest first or newest first
MapsOfSnaps(mounts, tree) ==
    {[D \in {M \in DOMAIN mounts : SnapMountsOf(M, mounts, tree) # {}} |->
         ListedSnapMounts(D, mounts, tree, reversed)] : reversed \in BOOLEAN}

\* map_of_alts: the alternates of every mount that has some
MapsOfAlts(mounts) ==
    LET have == {M \in DOMAIN mounts : alt_replicated_mounts(M, mounts) # {}}
        all  == UNION {sort_unstable_by_len(alt_replicated_mounts(M, mounts)) : M \in have}
    IN  {f \in [have -> all] :
            \A M \in have : f[M] \in sort_unstable_by_len(alt_replicated_mounts(M, mounts))}

\* "/" and "/home" on one pool, with and without a replica of "/home" at
\* "/etc/home"; a Btrfs "/home" with a ZFS replica
LookupIndexes ==
    {   (<<>> :> [name |-> <<"r">>, fs_type |-> "Zfs"])
     @@ (<<"home">> :> [name |-> <<"r", "/", "h">>, fs_type |-> "Zfs"]),
        (<<>> :> [name |-> <<"r">>, fs_type |-> "Zfs"])
     @@ (<<"home">> :> [name |-> <<"r", "/", "h">>, fs_type |-> "Zfs"])
     @@ (<<"etc", "home">> :> [name |-> <<"t", "/", "r", "/", "h">>, fs_type |-> "Zfs"]),
        (<<"home">> :> [name |-> <<"r", "/", "h">>, fs_type |-> "Btrfs"])
     @@ (<<"etc", "home">> :> [name |-> <<"t", "/", "r", "/", "h">>, fs_type |-> "Zfs"])}

\* SNAP_POINT and LOCAL_DIR given by the user
UserDefinedDirs ==
    {[snap_dir |-> <<"etc", "home">>, local_dir |-> <<"home">>, fs_type |-> t] :
        t \in {"Zfs", "Btrfs"}}

\* the configurations of a mount table and its snapshots: datasets detected
\* without or with the maps of alternates and of snapshot mounts, or an alias
Configs(mounts, tree) ==
    {NoConfig}
    \cup
    [user_defined : {<<>>},
     opt_map_of_alts : {<<a>> : a \in MapsOfAlts(mounts)},
     opt_map_of_snaps : {<<m>> : m \in MapsOfSnaps(mounts, tree)}]
    \cup
    [user_defined : {<<d>> : d \in UserDefinedDirs},
     opt_map_of_alts : {<<>>},
     opt_map_of_snaps : {<<>>}]

\* lookup_versions.rs needs map_of_snaps, and map_of_alts to follow AltReplicated
LvConfigured(selected_datasets) ==
    \/ config.user_defined # <<>>
    \/ /\ config.opt_map_of_snaps # <<>>
       /\ (\E i \in DOMAIN selected_datasets : selected_datasets[i] = "AltReplicated")
              => config.opt_map_of_alts # <<>>

\* the paths asked about: a file in a subdirectory of "/home", a file of
\* "/home", "/home" itself, a file of "/", a file of the replica
InputPaths ==
    {<<"home", "etc", "home">>, <<"home", "etc">>, <<"home">>, <<"etc">>,
     <<"etc", "home", "etc">>}

PolicyLists ==
    {<<"MostProximate">>, <<"AltReplicated", "MostProximate">>, <<"AltReplicated">>}

-----------------------------------------------------------------------------
(* The search planner *)

\* every dataset but "/" has one snapshot, which holds nothing of interest
PlanTree(mounts) ==
    [m \in {SnapMount(D, mounts[D].fs_type, SnapNames[1]) : D \in DOMAIN mounts \ {<<>>}}
        |-> NoFiles]

InitPlan ==
    /\ map_of_datasets \in LookupIndexes
    /\ snap_tree = PlanTree(map_of_datasets)
    /\ config \in Configs(map_of_datasets, snap_tree)
    /\ live = NoFiles
    /\ CACHE = EmptyCache
    /\ call = Idle
    /\ ret = Ok(<<>>)
    /\ issued = <<>>

\* versions_lookup.rs, get_all_snap_versions: the bundles of one path
VlSearchBundles(path, opt_alt_replicated) ==
    LET selected == vl_selected_datasets(opt_alt_replicated)
        R(i) == vl_get_search_bundle(config, map_of_datasets, path, selected[i])
    IN  \E rs \in [DOMAIN selected -> UNION {R(i) : i \in DOMAIN selected}] :
            /\ \A i \in DOMAIN selected : rs[i] \in R(i)
            /\ call' = [op |-> "vl_search_bundles", path |-> path, selected |-> selected]
            /\ ret' = Ok(FlattenOk(rs, 1))
            /\ UNCHANGED <<env, CACHE, issued>>

\* lookup_versions.rs, get_all_snap_versions: the bundles of one path
LvSearchBundles(path, selected_datasets) ==
    LET r == lv_search_bundles(config, map_of_datasets, path, selected_datasets, 1, CACHE)
    IN  /\ LvConfigured(selected_datasets)
        /\ call' = [op |-> "lv_search_bundles", path |-> path, selected |-> selected_datasets]
        /\ ret' = Ok(FlattenOk(r[1], 1))
        /\ CACHE' = r[2]
        /\ UNCHANGED <<env, issued>>

NextPlan ==
    \E path \in InputPaths :
        \/ \E opt_alt_replicated \in BOOLEAN : VlSearchBundles(path, opt_alt_replicated)
        \/ \E selected_datasets \in PolicyLists : LvSearchBundles(path, selected_datasets)

SpecPlan == InitPlan /\ [][NextPlan]_vars

Planned == call.op \in {"vl_search_bundles", "lv_search_bundles"}

AutoDetected == config.user_defined = <<>>

\* the proximate mount of p: its longest mounted ancestor
ProximateMount(p) ==
    CHOOSE m \in MountAncestors(p) : \A o \in MountAncestors(p) : Len(o) <= Len(m)

\* the snapshot root that derives from the mount M
RootOf(M) == snapshot_dir_of(M, map_of_datasets[M].fs_type)

\* C5: for a path with a proximate mount M and a policy list that includes
\* MostProximate, exactly one of the bundles planned has the snapshot root
\* that derives from M.
C5_OneProximateBundle ==
    (/\ Planned
     /\ AutoDetected
     /\ MountAncestors(call.path) # {}
     /\ \E i \in DOMAIN call.selected : call.selected[i] \in {"MostProximate", "MostImmediate"})
    => Cardinality({i \in DOMAIN ret.val :
                      ret.val[i].snapshot_dir = RootOf(ProximateMount(call.path))}) = 1

\* C6: every bundle planned for a path P with proximate mount M has
\* relative_path = P strip_prefix M, whatever its dataset of interest; with
\* an alias the prefix stripped is the alias's local_dir.
C6_RelativeToProximate ==
    Planned =>
        \A i \in DOMAIN ret.val :
            IF AutoDetected
            THEN /\ MountAncestors(call.path) # {}
                 /\ Ok(ret.val[i].relative_path)
                      = StripPrefix(call.path, ProximateMount(call.path))
            ELSE Ok(ret.val[i].relative_path)
                      = StripPrefix(call.path, config.user_defined[1].local_dir)

-----------------------------------------------------------------------------
(* Looking up the versions of files *)

\* what a snapshot can hold of the file: nothing, or the file as it was
Captured ==
    {<<>>,
     <<[system_time |-> 1, size |-> 1, is_dir |-> FALSE]>>,
     <<[system_time |-> 2, size |-> 1, is_dir |-> FALSE]>>,
     <<[system_time |-> 2, size |-> 2, is_dir |-> FALSE]>>}

\* the file whose versions differ: "etc/home" below the mount "/home"
TargetFile == <<"etc", "home">>

SourceMount == <<"home">>

ReplicaMount == <<"etc", "home">>

\* the snapshots the replica received
ReplicatedSnapNames == <<"s1">>

\* the files of a snapshot that captured this
FilesOf(captured) ==
    IF captured = <<>> THEN NoFiles ELSE (TargetFile :> captured[1])

\* the snapshots of "/home", each with what it captured; the replica, when
\* mounted, holds copies of the ones it received
LookupTrees(mounts) ==
    {[m \in {SnapMount(SourceMount, mounts[SourceMount].fs_type, n) : n \in Range(SnapNames)}
            \cup {SnapMount(ReplicaMount, "Zfs", n) :
                     n \in {k \in Range(ReplicatedSnapNames) : ReplicaMount \in DOMAIN mounts}}
        |-> FilesOf(c[CHOOSE n \in Range(SnapNames) :
                        m \in {SnapMount(SourceMount, mounts[SourceMount].fs_type, n),
                               SnapMount(ReplicaMount, "Zfs", n)}])]
     : c \in [Range(SnapNames) -> Captured]}

\* the live file is there or is not
LiveFiles ==
    {NoFiles,
     (SourceMount \o TargetFile) :> [system_time |-> 3, size |-> 1, is_dir |-> FALSE]}

\* the files asked about: a directory of "/home" and the file in it
LookupPaths == {<<"home", "etc">>, <<"home", "etc", "home">>}

LookupPathLists ==
    {<<<<"home", "etc", "home">>>>,
     <<<<"home", "etc">>, <<"home", "etc", "home">>>>,
     <<<<"home", "etc", "home">>, <<"home", "etc", "home">>>>}

InitLookup ==
    /\ map_of_datasets \in LookupIndexes
    /\ snap_tree \in LookupTrees(map_of_datasets)
    /\ config \in Configs(map_of_datasets, snap_tree)
    /\ live \in LiveFiles
    /\ CACHE = EmptyCache
    /\ call = Idle
    /\ ret = Ok(<<>>)
    /\ issued = <<>>

\* versions_lookup.rs: get_versions_per_dataset on a bundle planned for path
VlVersionsPerDataset(path, requested_dataset_type) ==
    \E bundles \in vl_get_search_bundle(config, map_of_datasets, path, requested_dataset_type) :
        /\ bundles.ok
        /\ \E i \in DOMAIN bundles.val :
              /\ call' = [op |-> "vl_get_versions_per_dataset", path |-> path,
                          search_bundle |-> bundles.val[i]]
              /\ ret' \in vl_get_versions_per_dataset(config, snap_tree, live, bundles.val[i])
        /\ UNCHANGED <<env, CACHE, issued>>

\* lookup_versions.rs: get_versions_per_dataset on a bundle planned for path
LvVersionsPerDataset(path, selected_datasets) ==
    LET bundles == FlattenOk(lv_search_bundles(config, map_of_datasets, path,
                                               selected_datasets, 1, CACHE)[1], 1)
    IN  /\ LvConfigured(selected_datasets)
        /\ \E i \in DOMAIN bundles :
              /\ call' = [op |-> "lv_get_versions_per_dataset", path |-> path,
                          search_bundle |-> bundles[i]]
              /\ ret' \in lv_get_versions_per_dataset(config, snap_tree, live, bundles[i])
        /\ UNCHANGED <<env, CACHE, issued>>

\* versions_lookup.rs: get_versions_set
VlGetVersionsSet(pathdata, opt_alt_replicated, opt_no_live_vers) ==
    /\ call' = [op |-> "get_versions_set", paths |-> pathdata,
                selected |-> vl_selected_datasets(opt_alt_replicated),
                opt_no_snap |-> FALSE, opt_no_live |-> opt_no_live_vers]
    /\ ret' \in get_versions_set(config, map_of_datasets, snap_tree, live, pathdata,
                                 opt_alt_replicated, opt_no_live_vers)
    /\ UNCHANGED <<env, CACHE, issued>>

\* lookup_versions.rs: versions_lookup_exec
LvVersionsLookupExec(vec_pathdata, selected_datasets, opt_no_snap, opt_no_live) ==
    LET r == versions_lookup_exec(config, map_of_datasets, snap_tree, live, vec_pathdata,
                                  selected_datasets, opt_no_snap, opt_no_live, CACHE)
    IN  /\ LvConfigured(selected_datasets)
        /\ call' = [op |-> "versions_lookup_exec", paths |-> vec_pathdata,
                    selected |-> selected_datasets,
                    opt_no_snap |-> opt_no_snap, opt_no_live |-> opt_no_live]
        /\ ret' \in r[1]
        /\ CACHE' = r[2]
        /\ UNCHANGED <<env, issued>>

NextLookup ==
    \/ \E path \in LookupPaths, t \in {"MostImmediate", "AltReplicated"} :
          VlVersionsPerDataset(path, t)
    \/ \E path \in LookupPaths, selected_datasets \in PolicyLists :
          LvVersionsPerDataset(path, selected_datasets)
    \/ \E pathdata \in LookupPathLists, opt_alt_replicated \in BOOLEAN :
          VlGetVersionsSet(pathdata, opt_alt_replicated, FALSE)
    \/ \E vec_pathdata \in LookupPathLists, selected_datasets \in PolicyLists :
          LvVersionsLookupExec(vec_pathdata, selected_datasets, FALSE, FALSE)

SpecLookup == InitLookup /\ [][NextLookup]_vars

EnumeratedBundle == call.op \in {"vl_get_versions_per_dataset", "lv_get_versions_per_dataset"}

LookedUp == call.op \in {"get_versions_set", "versions_lookup_exec"}

NonDecreasing(versions) ==
    \A i, j \in DOMAIN versions : i < j => versions[i].system_time <= versions[j].system_time

\* C7: the sequence the VersionEnumerator returns for a SearchBundle is
\* non-decreasing in mtime, in whatever order the snapshot mounts were listed
\* or probed.
C7_BundleSorted == (EnumeratedBundle /\ ret.ok) => NonDecreasing(ret.val)

\* the newer copy sits in the snapshot that comes first by name, and both
\* enumerators had to put the two in order
C7_Witness ==
    /\ call.op = "lv_get_versions_per_dataset"
    /\ ret.ok
    /\ Len(ret.val) = 2
    /\ ret.val[1].system_time < ret.val[2].system_time
    /\ ret.val[1].path_buf = SnapMount(SourceMount, map_of_datasets[SourceMount].fs_type,
                                       SnapNames[2]) \o TargetFile

\* C8 as stated: the snapshot-version list of a lookup (index 0), the merge
\* over all bundles, paths and policies, is non-decreasing in mtime.
C8_MergedSorted == (LookedUp /\ ret.ok) => NonDecreasing(ret.val[1])

\* the places where the list steps back in time
Descents(versions) ==
    {i \in 1..(Len(versions) - 1) : versions[i].system_time > versions[i + 1].system_time}

\* the datasets a policy makes the planner search for the path
DatasetsSearched(path, requested_dataset_type) ==
    IF AutoDetected /\ requested_dataset_type = "AltReplicated"
    THEN Cardinality(Alternates(ProximateMount(path)))
    ELSE 1

RECURSIVE Sum(_, _)
Sum(numbers, i) == IF i > Len(numbers) THEN 0 ELSE numbers[i] + Sum(numbers, i + 1)

\* the number of bundles a lookup searches at most
BundlesSearched ==
    Sum([k \in DOMAIN path_policy_pairs(call.paths, call.selected) |->
           DatasetsSearched(path_policy_pairs(call.paths, call.selected)[k][1],
                            path_policy_pairs(call.paths, call.selected)[k][2])], 1)

\* C8, amended: the list is the concatenation of the bundles' lists, each of
\* them non-decreasing in mtime: it steps back in time fewer times than there
\* are bundles, and not at all when one bundle is searched.
C8_SortedPerBundle ==
    (LookedUp /\ ret.ok /\ ret.val[1] # <<>>)
    => Cardinality(Descents(ret.val[1])) < BundlesSearched

\* two bundles, the replica's and the source's, and one step back between them
C8_Witness ==
    /\ LookedUp
    /\ ret.ok
    /\ Len(call.paths) = 1
    /\ Len(ret.val[1]) = 3
    /\ Cardinality(Descents(ret.val[1])) = 1
    /\ BundlesSearched = 2

\* (mtime, size) of a version
KeyOf(version) == <<version.system_time, version.size>>

\* the entries of the list with this key
WithKey(versions, key) == {i \in DOMAIN versions : KeyOf(versions[i]) = key}

\* C9 as stated: no two versions a lookup returns for a path share
\* (mtime, size), for any policy list and any number of candidate datasets.
C9_NoSharedKey ==
    (LookedUp /\ ret.ok /\ Len(call.paths) = 1)
    => \A i, j \in DOMAIN ret.val[1] :
          KeyOf(ret.val[1][i]) = KeyOf(ret.val[1][j]) => i = j

\* C9, amended: no two versions returned for one SearchBundle share
\* (mtime, size); the list of a lookup holds a key at most once per bundle
\* searched.
C9_NoSharedKeyPerBundle ==
    /\ (EnumeratedBundle /\ ret.ok)
       => \A i, j \in DOMAIN ret.val :
             KeyOf(ret.val[i]) = KeyOf(ret.val[j]) => i = j
    /\ (LookedUp /\ ret.ok)
       => \A i \in DOMAIN ret.val[1] :
             Cardinality(WithKey(ret.val[1], KeyOf(ret.val[1][i]))) <= BundlesSearched

\* both snapshots of the source captured the file with one (mtime, size), and
\* the source's bundle yields one version
C9_Witness ==
    /\ EnumeratedBundle
    /\ call.path = SourceMount \o TargetFile
    /\ call.search_bundle.snapshot_dir = RootOf(SourceMount)
    /\ \A n \in Range(SnapNames) :
          LET m == SnapMount(SourceMount, map_of_datasets[SourceMount].fs_type, n)
          IN  /\ TargetFile \in DOMAIN snap_tree[m]
              /\ snap_tree[m][TargetFile] = [system_time |-> 2, size |-> 1, is_dir |-> FALSE]
    /\ ret.ok
    /\ Len(ret.val) = 1

-----------------------------------------------------------------------------
(* Looking up deleted files *)

\* the directory asked about: "etc" of the mount "/home"
RequestedDir == <<"home", "etc">>

File(t) == [system_time |-> t, size |-> 1, is_dir |-> FALSE]

\* what a snapshot can hold of the directory
CapturedDirs ==
    {NoFiles,
     (<<"etc", "home">> :> File(1)),
     (<<"etc", "home">> :> File(2)) @@ (<<"etc", "etc">> :> File(1)),
     (<<"etc", "home">> :> File(1)) @@ (<<"etc", "etc">> :> File(2))}

DeletedTrees(mounts) ==
    {[m \in {SnapMount(SourceMount, mounts[SourceMount].fs_type, n) : n \in Range(SnapNames)}
            \cup {SnapMount(ReplicaMount, "Zfs", n) :
                     n \in {k \in Range(ReplicatedSnapNames) : ReplicaMount \in DOMAIN mounts}}
        |-> c[CHOOSE n \in Range(SnapNames) :
                 m \in {SnapMount(SourceMount, mounts[SourceMount].fs_type, n),
                        SnapMount(ReplicaMount, "Zfs", n)}]]
     : c \in [Range(SnapNames) -> CapturedDirs]}

\* the live directory: missing, empty, or with files
LiveDirs ==
    {NoFiles,
     (RequestedDir :> DirMetadata),
     (<<"home", "etc", "home">> :> File(3)),
     (<<"home", "etc", "home">> :> File(3)) @@ (<<"home", "etc", "etc">> :> File(3))}

InitDeleted ==
    /\ map_of_datasets \in LookupIndexes
    /\ snap_tree \in DeletedTrees(map_of_datasets)
    /\ config \in Configs(map_of_datasets, snap_tree)
    /\ live \in LiveDirs
    /\ CACHE = EmptyCache
    /\ call = Idle
    /\ ret = Ok(<<>>)
    /\ issued = <<>>

GetUniqueDeleted(requested_dir, opt_alt_replicated) ==
    /\ call' = [op |-> "get_unique_deleted", path |-> requested_dir,
                selected |-> vl_selected_datasets(opt_alt_replicated)]
    /\ ret' \in get_unique_deleted(config, map_of_datasets, snap_tree, live,
                                   requested_dir, opt_alt_replicated)
    /\ UNCHANGED <<env, CACHE, issued>>

NextDeleted ==
    \E requested_dir \in {RequestedDir, SourceMount}, opt_alt_replicated \in BOOLEAN :
        GetUniqueDeleted(requested_dir, opt_alt_replicated)

SpecDeleted == InitDeleted /\ [][NextDeleted]_vars

\* the names the live directory lists
LiveListing(dir) == {e[Len(e)] : e \in Children(snap_tree, live, dir)}

\* C10: the DeletedEnumerator returns no file name that the live directory
\* lists, whatever the snapshots hold and whichever datasets are searched.
C10_NoLiveName ==
    (call.op = "get_unique_deleted" /\ ret.ok)
    => \A i \in DOMAIN ret.val : ret.val[i].file_name \notin LiveListing(call.path)

\* a snapshot of the source and the replica hold both files, the live
\* directory one of them: the other one is returned
C10_Witness ==
    /\ call.op = "get_unique_deleted"
    /\ call.path = RequestedDir
    /\ Len(call.selected) = 2
    /\ LiveListing(RequestedDir) = {"home"}
    /\ ret.ok
    /\ Len(ret.val) = 1
    /\ ret.val[1].file_name = "etc"

\* the datasets whose snapshots a call searches for the path
CandidateDatasets ==
    IF ~AutoDetected THEN {config.user_defined[1].snap_dir}
    ELSE {ProximateMount(call.path)}
         \cup (IF \E i \in DOMAIN call.selected : call.selected[i] = "AltReplicated"
               THEN Alternates(ProximateMount(call.path))
               ELSE {})

\* the snapshot mounts of these datasets
CandidateSnapMounts ==
    {m \in DOMAIN snap_tree :
        \E D \in CandidateDatasets : StartsWith(m, D) /\ Len(m) = Len(D) + 3}

\* the times at which the snapshots hold an entry of this name in the
\* directory asked about
ObservedTimes(file_name) ==
    LET relative_path(m) ==
            IF AutoDetected
            THEN StripPrefix(call.path, ProximateMount(call.path)).val
            ELSE StripPrefix(call.path, config.user_defined[1].local_dir).val
    IN  {metadata(snap_tree, live, m \o relative_path(m) \o <<file_name>>)[1].system_time :
            m \in {c \in CandidateSnapMounts :
                     metadata(snap_tree, live, c \o relative_path(c) \o <<file_name>>) # <<>>}}

\* C11: the entry returned for a file name has the greatest mtime among all
\* observations of that name in the snapshots of the candidate datasets, also
\* when two snapshots of one dataset hold the name with different mtimes.
C11_LatestObservation ==
    (call.op = "get_unique_deleted" /\ ret.ok /\ MountAncestors(call.path) # {})
    => \A i \in DOMAIN ret.val :
          \A t \in ObservedTimes(ret.val[i].file_name) :
              t <= metadata(snap_tree, live, ret.val[i].path)[1].system_time

-----------------------------------------------------------------------------
(* Taking snapshots of the datasets that hold the input files *)

\* one pool and a child of it; two pools; two children of one pool; a mount
\* that is not ZFS; three pools
SnapIndexes ==
    {   (<<>> :> [name |-> <<"r">>, fs_type |-> "Zfs"])
     @@ (<<"home">> :> [name |-> <<"r", "/", "h">>, fs_type |-> "Zfs"]),
        (<<"home">> :> [name |-> <<"r", "/", "h">>, fs_type |-> "Zfs"])
     @@ (<<"etc">> :> [name |-> <<"t", "/", "d">>, fs_type |-> "Zfs"]),
        (<<"home">> :> [name |-> <<"r", "/", "h">>, fs_type |-> "Zfs"])
     @@ (<<"etc">> :> [name |-> <<"r", "/", "d">>, fs_type |-> "Zfs"]),
        (<<"home">> :> [name |-> <<"r", "/", "h">>, fs_type |-> "Btrfs"])
     @@ (<<"etc">> :> [name |-> <<"t", "/", "d">>, fs_type |-> "Zfs"]),
        (<<"home">> :> [name |-> <<"r", "/", "h">>, fs_type |-> "Zfs"])
     @@ (<<"etc">> :> [name |-> <<"t", "/", "d">>, fs_type |-> "Zfs"])
     @@ (<<"home", "etc">> :> [name |-> <<"d">>, fs_type |-> "Zfs"])}

\* the files take_snapshot is asked about
SnapPaths == {<<"home", "a">>, <<"etc", "a">>, <<"home", "etc", "a">>, <<"home", "etc", "b">>}

\* one file, two files, two files the first of which is named again, or
\* three files below three mount points
SnapPathLists ==
    {<<p>> : p \in SnapPaths}
    \cup {<<p, q>> : p, q \in SnapPaths}
    \cup {<<p, q, p>> : p, q \in {<<"home", "a">>, <<"etc", "a">>}}
    \cup {<<(<<"home", "a">>), (<<"etc", "a">>), (<<"home", "etc", "a">>)>>}

\* every file is there, or "/home/a" is not
SnapLiveFiles ==
    {[p \in L |-> [system_time |-> 3, size |-> 1, is_dir |-> FALSE]] :
        L \in {SnapPaths, SnapPaths \ {<<"home", "a">>}}}

\* no alias, or the alias "/home" -> "/etc/home"
SnapConfigs ==
    {NoConfig} \cup {[NoConfig EXCEPT !.user_defined = <<d>>] :
                        d \in {u \in UserDefinedDirs : u.fs_type = "Zfs"}}

Timestamps == {"1", "2"}

\* what the utility may write to its stderr
StderrTokens == {" ", "x", PermissionDenied}

Stderrs ==
    {<<>>} \cup {<<a>> : a \in StderrTokens} \cup {<<a, b>> : a, b \in StderrTokens}

InitSnapshot ==
    /\ map_of_datasets \in SnapIndexes
    /\ snap_tree = NoFiles
    /\ config \in SnapConfigs
    /\ live \in SnapLiveFiles
    /\ CACHE = EmptyCache
    /\ call = Idle
    /\ ret = Ok(<<>>)
    /\ issued = <<>>

\* take_snapshot up to the first invocation of the utility.  keys is the order
\* in which the BTreeMap of get_mounts_for_files iterates its paths.
TakeSnapshot(paths, timestamp, zfs_command, keys) ==
    /\ call.op = "none"
    /\ \E r \in {get_mounts_for_files(config, map_of_datasets, snap_tree, live, paths,
                                      "SnapFileMount", <<"MostProximate">>, CACHE)} :
        /\ keys \in Orderings(DOMAIN r[1])
        /\ CACHE' = r[2]
        /\ \E names \in {vec_snapshot_names(config, map_of_datasets, r[1], keys, timestamp)} :
            LET started == [op |-> "take_snapshot", path |-> <<>>, paths |-> paths,
                            timestamp |-> timestamp, zfs_command |-> zfs_command,
                            mounts |-> mounts_in_order(r[1], keys),
                            pending |-> <<>>, pc |-> "done"]
            IN  IF ~zfs_command
                THEN call' = started /\ ret' = ZfsNotFound
                ELSE IF ~names.ok
                THEN call' = started /\ ret' = names
                ELSE IF map_snapshot_names(names.val) = <<>>
                THEN call' = started /\ ret' = Ok(<<>>)
                ELSE /\ call' = [started EXCEPT !.pending = map_snapshot_names(names.val),
                                                !.pc = "exec"]
                     /\ ret' = Ok(<<>>)
    /\ UNCHANGED <<env, issued>>

\* one turn of try_for_each: the utility is run on the next group, and what it
\* wrote to stderr decides whether take_snapshot goes on
ExecZfsSnapshot(stderr) ==
    /\ call.op = "take_snapshot"
    /\ call.pc = "exec"
    /\ LET snapshot_names == Head(call.pending)
           process_args == <<(<<"snapshot">>)>> \o snapshot_names
           outcome == snapshot_outcome(stderr)
       IN  /\ issued' = Append(issued, [args |-> process_args, stderr |-> stderr])
           /\ IF outcome.ok /\ Tail(call.pending) # <<>>
              THEN call' = [call EXCEPT !.pending = Tail(call.pending)] /\ ret' = ret
              ELSE call' = [call EXCEPT !.pc = "done"] /\ ret' = outcome
    /\ UNCHANGED <<env, CACHE>>

NextSnapshot ==
    \/ \E paths \in SnapPathLists, timestamp \in Timestamps, zfs_command \in BOOLEAN,
          keys \in UNION {Orderings(S) : S \in SUBSET SnapPaths} :
          TakeSnapshot(paths, timestamp, zfs_command, keys)
    \/ \E stderr \in Stderrs : ExecZfsSnapshot(stderr)

SpecSnapshot == InitSnapshot /\ [][NextSnapshot]_vars

\* the snapshot names of the i-th command issued
NamesOf(i) == Tail(issued[i].args)

\* the dataset a snapshot name names: what stands before its "@"
DatasetOf(snapshot_name) ==
    SubSeq(snapshot_name, 1,
           (CHOOSE i \in DOMAIN snapshot_name : snapshot_name[i] = "@") - 1)

\* the pool of a dataset: its name up to the first "/", or all of it
PoolOf(dataset) ==
    IF \E i \in DOMAIN dataset : dataset[i] = "/"
    THEN SubSeq(dataset, 1, (CHOOSE i \in DOMAIN dataset :
                                /\ dataset[i] = "/"
                                /\ \A j \in 1..(i - 1) : dataset[j] # "/") - 1)
    ELSE dataset

\* C12: no snapshot command that take_snapshot issues has the names of
\* datasets of two distinct pools among its arguments.
C12_OnePoolPerCommand ==
    \A i \in DOMAIN issued :
        \A a, b \in Range(NamesOf(i)) : PoolOf(DatasetOf(a)) = PoolOf(DatasetOf(b))

\* a batch over two pools, the commands for both of them issued
C12_Witness ==
    /\ call.op = "take_snapshot"
    /\ Len(issued) = 2
    /\ PoolOf(DatasetOf(NamesOf(1)[1])) # PoolOf(DatasetOf(NamesOf(2)[1]))

\* take_snapshot has run to its end and reports success
Snapshotted == call.op = "take_snapshot" /\ call.pc = "done" /\ ret.ok

\* the pools of the datasets the batch touches
PoolsTouched == {PoolOf(map_of_datasets[m].name) : m \in Range(call.mounts)}

\* C13: snapshot names are grouped by pool, the pool being the dataset name
\* up to its first '/' or all of it, and the utility is invoked exactly once
\* per pool: a batch on "r" and "r/h" makes one invocation, a batch on "r/h"
\* and "t/d" makes two.
C13_OneInvocationPerPool ==
    (Snapshotted /\ call.zfs_command)
    => /\ Len(issued) = Cardinality(PoolsTouched)
       /\ \A i, j \in DOMAIN issued :
             PoolOf(DatasetOf(NamesOf(i)[1])) = PoolOf(DatasetOf(NamesOf(j)[1])) => i = j

\* C14: in every snapshot command issued the snapshot names stand in
\* lexicographic order and none stands twice, also when several input paths
\* share a mount.
C14_SortedNoDuplicates ==
    \A i \in DOMAIN issued :
        \A j, k \in DOMAIN NamesOf(i) : j < k => str_lt(NamesOf(i)[j], NamesOf(i)[k])

\* a command with two names, issued for a batch in which two paths share a mount
C14_Witness ==
    /\ call.op = "take_snapshot"
    /\ \E i \in DOMAIN issued : Len(NamesOf(i)) = 2
    /\ \E j, k \in DOMAIN call.mounts : j # k /\ call.mounts[j] = call.mounts[k]

\* the snapshot name of the dataset mounted at m, stamped with the timestamp
\* of the invocation
NameFor(m) == map_of_datasets[m].name \o <<"@", "snap_", call.timestamp, "_httmSnapFileMount">>

\* the input paths that exist
ExistingInputs == {p \in Range(call.paths) : p \in DOMAIN live}

\* C15: within one take_snapshot all snapshot names, whatever their pool,
\* carry the one timestamp T of the invocation, and each has the form
\* <dataset-name>@snap_<T>_httmSnapFileMount for the dataset name the mount
\* table holds for the mount of an input file.
C15_OneTimestampOneForm ==
    \A i \in DOMAIN issued : \A n \in Range(NamesOf(i)) :
        \E p \in ExistingInputs : MountAncestors(p) # {} /\ n = NameFor(ProximateMount(p))

\* commands for two pools have been issued
C15_Witness ==
    /\ Snapshotted
    /\ Len(issued) = 2
    /\ PoolOf(DatasetOf(NamesOf(1)[1])) # PoolOf(DatasetOf(NamesOf(2)[1]))

\* what validation is to make of the mount m
Expected(m) ==
    IF ~AutoDetected THEN UnsupportedAlias
    ELSE IF map_of_datasets[m].fs_type # "Zfs" THEN UnsupportedFilesystem
    ELSE Ok(NameFor(m))

\* the mounts to snapshot are alias mounts or mounts of the mount table
MountsKnown == ~AutoDetected \/ \A m \in Range(call.mounts) : m \in DOMAIN map_of_datasets

\* the snapshot names take_snapshot has produced: in a command issued, or
\* in a group yet to be issued
NamesProduced ==
    UNION {Range(NamesOf(i)) : i \in DOMAIN issued}
    \cup UNION {Range(call.pending[k]) : k \in DOMAIN call.pending}

\* C16: for each mount to snapshot, validation ends in UnsupportedAlias when
\* the mount comes from the alias map, in UnsupportedFilesystem when the mount
\* table holds a file system other than ZFS for it, and in a snapshot name
\* otherwise; take_snapshot fails with the outcome of the first mount that
\* does not validate.
C16_ValidationOutcome ==
    (call.op = "take_snapshot" /\ call.pc = "done" /\ call.zfs_command /\ MountsKnown)
    => IF \A i \in DOMAIN call.mounts : Expected(call.mounts[i]).ok
       THEN /\ ret \notin {UnsupportedAlias, UnsupportedFilesystem, UnparsedDataset}
            /\ \A i \in DOMAIN call.mounts : Expected(call.mounts[i]).val \in NamesProduced
       ELSE /\ issued = <<>>
            /\ \E i \in DOMAIN call.mounts :
                  /\ ret = Expected(call.mounts[i])
                  /\ ~ret.ok
                  /\ \A j \in 1..(i - 1) : Expected(call.mounts[j]).ok

\* a ZFS mount validated, then a mount that is not ZFS refused
C16_Witness ==
    /\ call.op = "take_snapshot"
    /\ call.pc = "done"
    /\ call.zfs_command
    /\ AutoDetected
    /\ Len(call.mounts) = 2
    /\ call.mounts[1] \in DOMAIN map_of_datasets
    /\ call.mounts[2] \in DOMAIN map_of_datasets
    /\ map_of_datasets[call.mounts[1]].fs_type = "Zfs"
    /\ map_of_datasets[call.mounts[2]].fs_type = "Btrfs"
    /\ ret = UnsupportedFilesystem

\* the utility has been invoked, and take_snapshot has taken in its stderr
Invoked == call.op = "take_snapshot" /\ issued # <<>>

\* the stderr of the latest invocation
LastStderr == issued[Len(issued)].stderr

\* take_snapshot stopped at the latest invocation with a failure
FailedAtLast == call.pc = "done" /\ ~ret.ok

Trimmed(s) ==
    IF \A i \in DOMAIN s : s[i] = " " THEN <<>>
    ELSE SubSeq(s, CHOOSE i \in DOMAIN s : s[i] # " " /\ \A j \in 1..(i - 1) : s[j] = " ",
                   CHOOSE i \in DOMAIN s : s[i] # " " /\ \A j \in (i + 1)..Len(s) : s[j] = " ")

-----------------------------------------------------------------------------
(* Lookups with the caller's flags, on datasets with and without snapshots *)

\* the snapshot mounts of "/home"
SourceSnapMounts(mounts) ==
    {SnapMount(SourceMount, mounts[SourceMount].fs_type, n) : n \in Range(SnapNames)}

\* the snapshot mounts of the replica, when it is mounted
ReplicaSnapMounts(mounts) ==
    {SnapMount(ReplicaMount, "Zfs", n) :
        n \in {k \in Range(ReplicatedSnapNames) : ReplicaMount \in DOMAIN mounts}}

\* no dataset has snapshots, or "/home" alone has, or the replica has as well;
\* the snapshots captured the file or did not
FlagTrees(mounts) ==
    {[m \in S |-> FilesOf(c)] :
        c \in {<<>>, <<[system_time |-> 1, size |-> 1, is_dir |-> FALSE]>>},
        S \in {{}, SourceSnapMounts(mounts),
               SourceSnapMounts(mounts) \cup ReplicaSnapMounts(mounts)}}

InitFlags ==
    /\ map_of_datasets \in LookupIndexes
    /\ snap_tree \in FlagTrees(map_of_datasets)
    /\ config \in Configs(map_of_datasets, snap_tree)
    /\ live \in LiveFiles
    /\ CACHE = EmptyCache
    /\ call = Idle
    /\ ret = Ok(<<>>)
    /\ issued = <<>>

NextFlags ==
    \/ \E pathdata \in LookupPathLists, opt_alt_replicated \in BOOLEAN,
          opt_no_live_vers \in BOOLEAN :
          VlGetVersionsSet(pathdata, opt_alt_replicated, opt_no_live_vers)
    \/ \E vec_pathdata \in LookupPathLists, selected_datasets \in PolicyLists,
          opt_no_snap \in BOOLEAN, opt_no_live \in BOOLEAN :
          LvVersionsLookupExec(vec_pathdata, selected_datasets, opt_no_snap, opt_no_live)

SpecFlags == InitFlags /\ [][NextFlags]_vars

\* the record of the live file at path, phantom when there is none
LiveRecord(path) ==
    IF path \in DOMAIN live
    THEN [path_buf |-> path, system_time |-> live[path].system_time,
          size |-> live[path].size, is_phantom |-> FALSE]
    ELSE IF \E f \in KnownPaths(snap_tree, live) : StartsWith(f, path)
    THEN [path_buf |-> path, system_time |-> DirMetadata.system_time,
          size |-> DirMetadata.size, is_phantom |-> FALSE]
    ELSE PathData_from_parts(path, <<>>)

\* version is a file that a snapshot in the tree holds
InSnapshot(version) ==
    /\ ~version.is_phantom
    /\ \E m \in DOMAIN snap_tree : StartsWith(version.path_buf, m)

\* C18: a lookup returns two lists: index 0 holds the snapshot versions,
\* index 1 the live records of exactly the input paths, the phantom ones
\* included; with no_snap set index 0 is empty, with no_live set index 1 is.
C18_TwoLists ==
    (LookedUp /\ ret.ok)
    => /\ Len(ret.val) = 2
       /\ \A i \in DOMAIN ret.val[1] : InSnapshot(ret.val[1][i])
       /\ call.opt_no_snap => ret.val[1] = <<>>
       /\ ret.val[2] = IF call.opt_no_live THEN <<>>
                       ELSE [i \in DOMAIN call.paths |-> LiveRecord(call.paths[i])]

\* a lookup with no_live set that found a version in the snapshots
C18_Witness ==
    /\ LookedUp
    /\ ret.ok
    /\ call.opt_no_live
    /\ ret.val[1] # <<>>
    /\ ret.val[2] = <<>>

\* the policy is among the ones selected
Selected(requested_dataset_type) ==
    \E i \in DOMAIN call.selected : call.selected[i] = requested_dataset_type

\* the candidate datasets of a path: the alias's snapshot directory, or the
\* proximate mount and, under AltReplicated, its alternates
CandidatesFor(p) ==
    IF ~AutoDetected THEN {config.user_defined[1].snap_dir}
    ELSE (IF Selected("MostProximate") \/ Selected("MostImmediate")
          THEN {ProximateMount(p)} ELSE {})
         \cup (IF Selected("AltReplicated") THEN Alternates(ProximateMount(p)) ELSE {})

AllCandidates == UNION {CandidatesFor(call.paths[i]) : i \in DOMAIN call.paths}

\* the file system type a candidate dataset is searched as
FsTypeOf(D) ==
    IF ~AutoDetected THEN config.user_defined[1].fs_type ELSE map_of_datasets[D].fs_type

\* the snapshots of D that can be searched
SnapshotsOf(D) ==
    {m \in DOMAIN snap_tree : \E n \in Range(SnapNames) : m = SnapMount(D, FsTypeOf(D), n)}

\* a candidate dataset fails when there are no snapshots of it to search
Fails(D) == SnapshotsOf(D) = {}

\* p relative to what it is searched under
RelativeTo(p) ==
    IF ~AutoDetected THEN StripPrefix(p, config.user_defined[1].local_dir).val
    ELSE StripPrefix(p, ProximateMount(p)).val

\* the (mtime, size) of the copies of p that the snapshots of D hold
HeldBy(D, p) ==
    {KeyOf(snap_tree[m][RelativeTo(p)]) :
        m \in {k \in SnapshotsOf(D) : RelativeTo(p) \in DOMAIN snap_tree[k]}}

\* the candidates searched below .zfs/snapshot
ZfsCandidatesFor(p) == {D \in CandidatesFor(p) : FsTypeOf(D) = "Zfs"}

\* no live copy is there to be shown
NothingLive == call.opt_no_live \/ \A i \in DOMAIN call.paths : LiveRecord(call.paths[i]).is_phantom

-----------------------------------------------------------------------------
(* The mounts of the input files *)

\* the file, its directory and the file; the file twice; the file next to one
\* that never existed; a directory above which nothing may be mounted
MountPathLists ==
    LookupPathLists
    \cup {<<<<"home", "s1">>, <<"home", "etc", "home">>>>,
          <<<<"etc">>, <<"home", "etc", "home">>>>}

ExecModes == {"SnapFileMount", "MountsForFiles"}

\* get_mounts_for_files, with exec_mode and selected_datasets as the
\* configuration holds them
GetMountsForFiles(paths, exec_mode, selected_datasets) ==
    LET r == get_mounts_for_files(config, map_of_datasets, snap_tree, live, paths,
                                  exec_mode, selected_datasets, CACHE)
    IN  /\ LvConfigured(IF exec_mode = "SnapFileMount"
                        THEN <<"MostProximate">> ELSE selected_datasets)
        /\ call' = [op |-> "get_mounts_for_files", paths |-> paths,
                    selected |-> selected_datasets, exec_mode |-> exec_mode]
        /\ ret' = Ok(r[1])
        /\ CACHE' = r[2]
        /\ UNCHANGED <<env, issued>>

NextMounts ==
    \E paths \in MountPathLists, exec_mode \in ExecModes, selected_datasets \in PolicyLists :
        GetMountsForFiles(paths, exec_mode, selected_datasets)

SpecMounts == InitFlags /\ [][NextMounts]_vars

\* the input paths that are there
NonPhantomInputs == {p \in Range(call.paths) : ~LiveRecord(p).is_phantom}

\* C20: get_mounts_for_files leaves the phantom inputs out: every key of the
\* map it returns is an input path that exists, every input path that exists
\* and has a proximate mount is a key, and phantom inputs do not make the
\* call fail.
C20_PhantomsExcluded ==
    call.op = "get_mounts_for_files"
    => /\ ret.ok
       /\ DOMAIN ret.val \subseteq NonPhantomInputs
       /\ \A p \in NonPhantomInputs : MountAncestors(p) # {} => p \in DOMAIN ret.val

\* a file that is there was asked about together with one that is not
C20_Witness ==
    /\ call.op = "get_mounts_for_files"
    /\ ret.ok
    /\ NonPhantomInputs # {}
    /\ Range(call.paths) \ NonPhantomInputs # {}
    /\ DOMAIN ret.val = NonPhantomInputs
    /\ \E p \in DOMAIN ret.val : ret.val[p] # <<>>

-----------------------------------------------------------------------------
(* Properties of the deleted-file lookup: failures and uniqueness *)

DeletedLookedUp == call.op = "get_unique_deleted"

\* the file names the snapshot mounted at m lists for the directory p; none
\* when the snapshot does not hold the directory and the listing fails
SnapListing(m, p) ==
    {f[Len(RelativeTo(p)) + 1] :
        f \in {g \in DOMAIN snap_tree[m] :
                 StartsWith(g, RelativeTo(p)) /\ Len(g) > Len(RelativeTo(p))}}

C30_OneEntryPerName ==
    (DeletedLookedUp /\ ret.ok)
    => \A i, j \in DOMAIN ret.val : ret.val[i].file_name = ret.val[j].file_name => i = j

\* a file gone from the live directory that both snapshots of "/home" and
\* the replica's snapshot list, returned once
C30_Witness ==
    /\ DeletedLookedUp
    /\ call.path = RequestedDir
    /\ AutoDetected
    /\ Selected("AltReplicated")
    /\ ReplicaMount \in CandidatesFor(RequestedDir)
    /\ \A D \in CandidatesFor(RequestedDir) :
          /\ FsTypeOf(D) = "Zfs"
          /\ SnapshotsOf(D) # {}
          /\ \A m \in SnapshotsOf(D) : "home" \in SnapListing(m, RequestedDir)
    /\ Cardinality(SnapshotsOf(SourceMount)) = 2
    /\ ret.ok
    /\ Cardinality({i \in DOMAIN ret.val : ret.val[i].file_name = "home"}) = 1

-----------------------------------------------------------------------------
(* Properties of lookups that follow AltReplicated without a replica *)

\* the lookup that is starting follows AltReplicated and then the proximate
\* mount, for paths whose proximate mount has no alternates
AltReplicatedInVain ==
    /\ call'.op \in {"get_versions_set", "versions_lookup_exec"}
    /\ AutoDetected
    /\ call'.selected \in {<<"AltReplicated", "MostProximate">>,
                           <<"AltReplicated", "MostImmediate">>}
    /\ \A i \in DOMAIN call'.paths :
          /\ MountAncestors(call'.paths[i]) # {}
          /\ Alternates(ProximateMount(call'.paths[i])) = {}

\* what the same lookup returns from the same state under the policy
\* [MostProximate] alone
WithoutAltReplicated ==
    IF call'.op = "get_versions_set"
    THEN get_versions_set(config, map_of_datasets, snap_tree, live, call'.paths,
                          FALSE, call'.opt_no_live)
    ELSE versions_lookup_exec(config, map_of_datasets, snap_tree, live, call'.paths,
                              <<"MostProximate">>, call'.opt_no_snap, call'.opt_no_live,
                              CACHE)[1]

\* C22: when the policy list holds AltReplicated and the proximate mount has
\* no alternates, the NoAltReplica error is flattened away: the lookup under
\* [AltReplicated, MostProximate] returns what the lookup under
\* [MostProximate] returns, and does not fail where that one does not.
C22_NoAltReplicaFlattened ==
    [][AltReplicatedInVain => ret' \in WithoutAltReplicated]_vars

-----------------------------------------------------------------------------
(* Properties of the mounts found for take_snapshot *)

\* get_mounts_for_files is starting in snapshot mode
SnapshotModeStarts ==
    /\ call'.op = "get_mounts_for_files"
    /\ call'.exec_mode = "SnapFileMount"
    /\ AutoDetected

\* the map the same call returns from the same state when the policies the
\* configuration holds are selected_datasets
MapUnder(selected_datasets) ==
    Ok(get_mounts_for_files(config, map_of_datasets, snap_tree, live, call'.paths,
                            "SnapFileMount", selected_datasets, CACHE)[1])

\* the map holds nothing but the proximate mount of every key
OnlyProximate(map) ==
    \A p \in DOMAIN map : \A i \in DOMAIN map[p] : map[p][i] = ProximateMount(p)

\* the map does not depend on the policies of the configuration
SameUnderEveryPolicy == \A selected_datasets \in PolicyLists : ret' = MapUnder(selected_datasets)

\* C23: in snapshot mode the result of get_mounts_for_files does not depend
\* on the alternate-replica flag: two runs on the same paths and mount table
\* that differ in the flag alone return the same map, and every list of the
\* map holds only the proximate mount of its key.
C23_ProximateWhateverThePolicy ==
    [][SnapshotModeStarts => SameUnderEveryPolicy /\ OnlyProximate(ret'.val)]_vars

-----------------------------------------------------------------------------
(* Properties of the enumerator: which copy stays, which mounts are probed *)

\* the snapshot mounts the bundle carries, if it carries any
ExplicitSnapMounts ==
    IF call.op = "lv_get_versions_per_dataset"
    THEN call.search_bundle.opt_snap_mounts
    ELSE call.search_bundle.snapshot_mounts

\* the places in the list of snapshot mounts where the target is held with
\* this (mtime, size)
HoldingWithKey(snap_mounts, key) ==
    {j \in DOMAIN snap_mounts :
        LET md == metadata(snap_tree, live,
                           Join(snap_mounts[j], call.search_bundle.relative_path))
        IN  md # <<>> /\ KeyOf(md[1]) = key}

\* the enumerator went through the list of snapshot mounts its bundle carries
EnumeratedExplicit ==
    /\ EnumeratedBundle
    /\ AutoDetected
    /\ ExplicitSnapMounts # <<>>
    /\ ret.ok

\* C24: when several snapshot mounts of a bundle hold the target with the
\* same (mtime, size), the record returned is that of the first of them in
\* the list of candidate snapshot mounts.
C24_FirstObservedStays ==
    EnumeratedExplicit
    => \A i \in DOMAIN ret.val :
          \E j \in HoldingWithKey(ExplicitSnapMounts[1], KeyOf(ret.val[i])) :
             /\ ret.val[i].path_buf
                   = Join(ExplicitSnapMounts[1][j], call.search_bundle.relative_path)
             /\ \A k \in HoldingWithKey(ExplicitSnapMounts[1], KeyOf(ret.val[i])) : j <= k


\* map_of_snaps as a mount table read before every snapshot was mounted gives
\* it: the lists of some of the datasets that hold snapshots, none for the others
PartialMapsOfSnaps(mounts, tree) ==
    {[D \in known |-> m[D]] : m \in MapsOfSnaps(mounts, tree),
                              known \in SUBSET {M \in DOMAIN mounts :
                                                  SnapMountsOf(M, mounts, tree) # {}}}

\* the configurations of a lookup, map_of_snaps complete or not
EnumerateConfigs(mounts, tree) ==
    Configs(mounts, tree)
    \cup
    [user_defined : {<<>>},
     opt_map_of_alts : {<<a>> : a \in MapsOfAlts(mounts)},
     opt_map_of_snaps : {<<m>> : m \in PartialMapsOfSnaps(mounts, tree)}]

InitEnumerate ==
    /\ map_of_datasets \in LookupIndexes
    /\ snap_tree \in LookupTrees(map_of_datasets)
    /\ config \in EnumerateConfigs(map_of_datasets, snap_tree)
    /\ live \in LiveFiles
    /\ CACHE = EmptyCache
    /\ call = Idle
    /\ ret = Ok(<<>>)
    /\ issued = <<>>

NextEnumerate ==
    \E path \in LookupPaths, selected_datasets \in PolicyLists :
        LvVersionsPerDataset(path, selected_datasets)

SpecEnumerate == InitEnumerate /\ [][NextEnumerate]_vars

EnumeratedByLv == call.op = "lv_get_versions_per_dataset"

\* the snapshot mounts a listing of the bundle's snapshot root leads to
ReachableUnder(search_bundle) ==
    {m \in DOMAIN snap_tree :
        \E n \in Range(SnapNames) :
            m = IF search_bundle.fs_type = "Btrfs"
                THEN search_bundle.snapshot_dir \o BTRFS_SNAPPER_HIDDEN_DIRECTORY
                         \o <<n>> \o BTRFS_SNAPPER_SUFFIX
                ELSE search_bundle.snapshot_dir \o <<n>>}

\* the candidate snapshot mounts of step 1: the explicit ones, else the listed
CandidateMounts(search_bundle) ==
    IF search_bundle.opt_snap_mounts # <<>>
    THEN Range(search_bundle.opt_snap_mounts[1])
    ELSE ReachableUnder(search_bundle)

\* C25: the versions returned for a bundle are found at its explicit snapshot
\* mounts when it carries them and otherwise at the snapshot mounts listed
\* under its snapshot root (for Btrfs, "snapshot" below each child), and every
\* version held by one of these mounts is returned, so that a bundle without
\* explicit snapshot mounts yields every version under its snapshot root.
C25_ListedWhenNotExplicit ==
    EnumeratedByLv
    => LET search_bundle == call.search_bundle
           held(m) == PathData_from(snap_tree, live, Join(m, search_bundle.relative_path))
       IN  /\ ret.ok
              => \A i \in DOMAIN ret.val :
                    \E m \in CandidateMounts(search_bundle) :
                        ret.val[i].path_buf = Join(m, search_bundle.relative_path)
           /\ \A m \in CandidateMounts(search_bundle) :
                 ~held(m).is_phantom
                 => /\ ret.ok
                    /\ \E i \in DOMAIN ret.val : KeyOf(ret.val[i]) = KeyOf(held(m))


-----------------------------------------------------------------------------
(* Properties of the cache of get_proximate_dataset *)

\* C26: every entry of the cache maps a directory to its longest mounted
\* ancestor, a key of the mount table, and never to the directory itself
\* when the directory is not a mount.
C26_CacheHoldsAncestors ==
    \A parent \in DOMAIN CACHE :
        /\ CACHE[parent] \in MountAncestors(parent)
        /\ \A m \in MountAncestors(parent) : Len(m) <= Len(CACHE[parent])


-----------------------------------------------------------------------------
(* Queries of get_proximate_dataset running side by side on one cache *)

\* the threads of the pool that resolve paths at the same time
Workers == {1, 2}

\* the paths resolved: "/" and the paths below "/home"
ConcurrentPaths == {p \in PathsUpTo(MaxDepth) : p = <<>> \/ p[1] = "home"}

NoQuery == [pc |-> "idle", path |-> <<>>, pending |-> <<>>]

InitConcurrent ==
    /\ map_of_datasets \in ResolverIndexes
    /\ config = NoConfig
    /\ snap_tree = NoFiles
    /\ live = NoFiles
    /\ CACHE = EmptyCache
    /\ call = [op |-> "par_iter", path |-> <<>>, queries |-> [w \in Workers |-> NoQuery]]
    /\ ret = [w \in Workers |-> Ok(<<>>)]
    /\ issued = <<>>

\* Cache::new(30), insert: the entry is admitted or it is not, and when the
\* cache is full an entry it holds leaves for the one admitted
insert_outcomes(cache, key, value) ==
    LET others == DOMAIN cache \ {key}
        kept   == {S \in SUBSET others :
                      IF Cardinality(others) < MaxCached
                      THEN S = others
                      ELSE Cardinality(S) = MaxCached - 1}
    IN  {cache} \cup {Insert([k \in S |-> cache[k]], key, value) : S \in kept}

\* a thread reads the cache and walks the ancestors of the path: it has its
\* answer, and on a miss an entry to insert
BeginQuery(w, path) ==
    LET r == get_proximate_dataset(path, map_of_datasets, CACHE)
    IN  /\ call.queries[w].pc = "idle"
        /\ call' = [call EXCEPT !.queries[w] =
                       IF r[2] = CACHE
                       THEN [pc |-> "done", path |-> path, pending |-> <<>>]
                       ELSE [pc |-> "insert", path |-> path,
                             pending |-> <<Parent(path), r[2][Parent(path)]>>]]
        /\ ret' = [ret EXCEPT ![w] = r[1]]
        /\ UNCHANGED <<env, CACHE, issued>>

\* CACHE.insert of the thread, after whatever the other threads did
CacheInsert(w) ==
    /\ call.queries[w].pc = "insert"
    /\ CACHE' \in insert_outcomes(CACHE, call.queries[w].pending[1],
                                  call.queries[w].pending[2])
    /\ call' = [call EXCEPT !.queries[w].pc = "done", !.queries[w].pending = <<>>]
    /\ UNCHANGED <<env, ret, issued>>

\* the thread hands its answer over and takes the next path
EndQuery(w) ==
    /\ call.queries[w].pc = "done"
    /\ call' = [call EXCEPT !.queries[w] = NoQuery]
    /\ ret' = [ret EXCEPT ![w] = Ok(<<>>)]
    /\ UNCHANGED <<env, CACHE, issued>>

NextConcurrent ==
    \E w \in Workers :
        \/ \E path \in ConcurrentPaths : BeginQuery(w, path)
        \/ CacheInsert(w)
        \/ EndQuery(w)

SpecConcurrent == InitConcurrent /\ [][NextConcurrent]_vars

Answered(w) == call.queries[w].pc \in {"insert", "done"}

\* C27: whatever the threads that share the cache do in between, inserts
\* that are lost and entries that are evicted included, every query returns
\* what it returns with no cache at all.
C27_AsWithoutCache ==
    \A w \in Workers :
        Answered(w)
        => ret[w] = get_proximate_dataset(call.queries[w].path, map_of_datasets,
                                          EmptyCache)[1]


-----------------------------------------------------------------------------
(* Properties of take_snapshot: validation first, then pool after pool *)

\* the mount is an alias mount, is not in the mount table, or is not ZFS
FailsValidation(m) ==
    \/ ~AutoDetected
    \/ m \notin DOMAIN map_of_datasets
    \/ map_of_datasets[m].fs_type # "Zfs"

\* C28: take_snapshot validates every mount before it issues a command: when
\* a mount of the batch fails validation, being an alias mount, not ZFS, or
\* not in the mount table, the utility is never invoked, not even for the
\* pools whose mounts are all valid.
C28_NoCommandUnlessAllValid ==
    (call.op = "take_snapshot" /\ \E i \in DOMAIN call.mounts : FailsValidation(call.mounts[i]))
    => issued = <<>>

\* the utility was found, a ZFS mount of a pool of its own stands before a
\* mount that is not ZFS, and take_snapshot ended in failure with no command
C28_Witness ==
    /\ call.op = "take_snapshot"
    /\ call.pc = "done"
    /\ call.zfs_command
    /\ \E i, j \in DOMAIN call.mounts :
          /\ i < j
          /\ ~FailsValidation(call.mounts[i])
          /\ FailsValidation(call.mounts[j])
    /\ ~ret.ok
    /\ issued = <<>>

\* the key of a group of snapshot names: a name of the group up to its first
\* "/", or all of it
GroupKey(snapshot_names) == PoolOf(snapshot_names[1])

\* the group key of the i-th of the commands
KeyOfCommand(commands, i) == GroupKey(Tail(commands[i].args))

\* the i-th invocation reported an error
Reported(i) == Trimmed(issued[i].stderr) # <<>>

\* C29: take_snapshot invokes the utility for the pool groups one after
\* another in ascending order of the group key, and stops at the first
\* invocation that reports an error: no group is invoked after it, and the
\* commands issued before it stay issued.
C29_InOrderUntilFailure ==
    [][/\ Len(issued) <= Len(issued')
       /\ SubSeq(issued', 1, Len(issued)) = issued
       /\ (issued # <<>> /\ Reported(Len(issued))) => issued' = issued
       /\ \A i, j \in DOMAIN issued' : i < j => str_lt(KeyOfCommand(issued', i), KeyOfCommand(issued', j))
       /\ issued' # issued
          => \A k \in 2..Len(call.pending) :
                str_lt(KeyOfCommand(issued', Len(issued')), GroupKey(call.pending[k]))]_vars

\* three pools: the first command succeeded, the second reported an error,
\* and take_snapshot ended there with the group of the third pool not invoked
C29_Witness ==
    /\ call.op = "take_snapshot"
    /\ call.pc = "done"
    /\ Len(issued) = 2
    /\ ~Reported(1)
    /\ Reported(2)
    /\ ~ret.ok
    /\ Len(call.pending) = 2
    /\ str_lt(KeyOfCommand(issued, 2), GroupKey(call.pending[2]))

====
